---- MODULE Spec2Model ----
(***************************************************************************)
(* A model of the agent loop of simple_agent_loop (src/agent_loop.py):     *)
(* the session of messages, the parsing of the provider's response        *)
(* blocks, the thread-pool dispatch of tool calls and the loop controller. *)
(* The control thread of agent_loop is followed line by line through pc;   *)
(* the workers of the ThreadPoolExecutor run concurrently with it (Spec).  *)
(* The session API, the outbound translation, the parsing, the line        *)
(* logger and the dispatch are also exercised on their own (CallerSpec,    *)
(* ForkSpec, ParseSpec, LogSpec, DispatchSpec); FairSpec is the loop under *)
(* fair scheduling.                                                        *)
(***************************************************************************)
EXTENDS Integers, Sequences, FiniteSets, TLC

(***************************************************************************)
(* Bounds of the exploration.                                              *)
(***************************************************************************)
\* Largest iteration cap tried, and the number of model invocations explored
\* when the loop runs without a cap.
MaxIter == 2
\* Number of blocks the model returns over one run of the loop, all replies
\* together.
MaxBlocks == 3

(***************************************************************************)
(* Python values.                                                          *)
(***************************************************************************)
\* None, as returned by dict.get for a missing key.
None == "None"

\* max_iterations=None is the empty tuple, max_iterations=n the tuple <<n>>.
NoCap == <<>>

\* dict.get(key): the value, or None when the key is missing.
Get(m, k) == IF k \in DOMAIN m THEN m[k] ELSE None

\* A Python str used as a tool output.
Str(s) == [py |-> "str", v |-> s]

(***************************************************************************)
(* The environment: tool names, handlers, and what the model may reply.    *)
(***************************************************************************)
ToolInput == [a |-> 1]

\* Names the model may ask for.  "nope" is never registered.
ToolNames == {"add", "boom", "quit", "nope"}

\* What a handler does when called with **input: it returns a value, raises
\* an Exception, or raises a BaseException that is no Exception (SystemExit,
\* KeyboardInterrupt).
Returns(v) == [kind |-> "return", value |-> v]
Raises(msg) == [kind |-> "Exception", msg |-> msg]
Exits(msg) == [kind |-> "BaseException", msg |-> msg]

\* The tool_handlers mapping agent_loop is called with: one handler that
\* returns, one that raises an Exception, one that raises SystemExit.
tool_handlers == [n \in {"add", "boom", "quit"} |->
                    CASE n = "add" -> Returns(Str("3"))
                      [] n = "boom" -> Raises("bad input")
                      [] n = "quit" -> Exits("exit")]

\* Blocks of a provider response.
ThinkingBlocks == {[type |-> "thinking", thinking |-> "hm", signature |-> "sig"]}
TextBlocks == {[type |-> "text", text |-> "ok"]}
ToolUse(i, n) == [type |-> "tool_use", id |-> i, name |-> n, input |-> ToolInput]
ToolUseBlocks == {ToolUse("c1", n) : n \in ToolNames}
                   \cup {ToolUse("c2", "add"), ToolUse("c2", "nope")}
Blocks == ThinkingBlocks \cup TextBlocks \cup ToolUseBlocks

\* The replies invoke_model may return: {"content": [blocks]}.
Replies == UNION {[1..n -> Blocks] : n \in 0..MaxBlocks}

\* No exception is leaving agent_loop.
NoException == [kind |-> "none", msg |-> "", from |-> ""]

\* The failure invoke_model may raise.
ModelError == [kind |-> "Exception", msg |-> "model down", from |-> "invoke_model"]

VARIABLES
    session,         \* session["messages"]
    max_iterations,  \* NoCap or <<n>>
    pc,              \* where the control thread of agent_loop stands
    iteration,       \* agent_loop's counter
    api_response,    \* the blocks invoke_model returned last
    messages,        \* parse_response(api_response)
    tool_calls,      \* the tool_call messages of this iteration
    results,         \* execute_tool_calls' results list
    futures,         \* index of a submitted call -> state of its future
    idx,             \* position of the running for loop
    raised,          \* the exception leaving agent_loop, or NoException
    clock,           \* what now() reads
    invocations,     \* history: calls of invoke_model so far
    handlerRuns,     \* history: handler executions so far
    blocksUsed,      \* history: blocks the model has returned so far
    history,         \* history: per model invocation, the parsed reply and
                     \* the results execute_tool_calls returned for it
    call,            \* the call a caller of the session API made last
    forked           \* what fork_session returned, or NoFork

vars == <<session, max_iterations, pc, iteration, api_response,
          messages, tool_calls, results, futures, idx, raised, clock,
          invocations, handlerRuns, blocksUsed, history,
          call, forked>>

\* The variables only a caller of the session API writes.
callerVars == <<call, forked>>

(***************************************************************************)
(* Session / message model.                                                *)
(***************************************************************************)
now == clock

\* Both entries carry now() of the time of creation, before the loop starts.
init_session(system_prompt, user_prompt) ==
    << [role |-> "system", content |-> system_prompt, ts |-> 0],
       [role |-> "user", content |-> user_prompt, ts |-> 0] >>

\* Mutant of extend_session: the message is put in front.
extend_session_in_front(s, message) == <<message>> \o s

\* Mutant of extend_session: the message overwrites the last entry.
extend_session_overwrite(s, message) == [s EXCEPT ![Len(s)] = message]

\* session["messages"].append(message)
extend_session(s, message) == Append(s, message)

\* send: a user message with ts = now() is appended.
send(s, user_message) ==
    extend_session(s, [role |-> "user", content |-> user_message, ts |-> now])

\* The session agent_loop is started on.
InitialSession == init_session("sys", "hi")

\* Position of the last assistant entry of s, 0 when there is none.
LastAssistant(s) ==
    LET at == {k \in 1..Len(s) : Get(s[k], "role") = "assistant"}
    IN IF at = {} THEN 0 ELSE CHOOSE k \in at : \A j \in at : j <= k

\* None where a message (a dict) is expected.
NoneDict == [py |-> "None"]

\* Mutant of response: only the last entry is looked at.
response_last_entry(s) ==
    IF s # << >> /\ Get(s[Len(s)], "role") = "assistant" THEN s[Len(s)]
    ELSE NoneDict

\* Mutant of response: the messages are scanned from the front.
RECURSIVE response_forward(_)
response_forward(s) ==
    IF s = << >> THEN NoneDict
    ELSE IF Get(Head(s), "role") = "assistant" THEN Head(s)
         ELSE response_forward(Tail(s))

\* response(session): for msg in reversed(messages), the first one whose
\* role is assistant; None when the scan ends.
RECURSIVE response(_)
response(s) ==
    IF s = << >> THEN NoneDict
    ELSE IF Get(s[Len(s)], "role") = "assistant" THEN s[Len(s)]
         ELSE response(SubSeq(s, 1, Len(s) - 1))

(***************************************************************************)
(* parse_response: provider blocks -> generic messages.                    *)
(***************************************************************************)
\* Mutant of the text branch: an empty text gives an assistant message too.
ParseBlockKeepsEmptyText(block, ts) ==
    CASE block.type = "thinking" ->
           IF "signature" \in DOMAIN block
           THEN << [type |-> "thinking", content |-> block.thinking, ts |-> ts,
                    signature |-> block.signature] >>
           ELSE << [type |-> "thinking", content |-> block.thinking, ts |-> ts] >>
      [] block.type = "text" ->
           << [role |-> "assistant", content |-> block.text, ts |-> ts] >>
      [] block.type = "tool_use" ->
           << [type |-> "tool_call", name |-> block.name, id |-> block.id,
               input |-> block.input] >>
      [] OTHER -> << >>

\* What one block of the response becomes: no message or one.
ParseBlock(block, ts) ==
    CASE block.type = "thinking" ->
           IF "signature" \in DOMAIN block
           THEN << [type |-> "thinking", content |-> block.thinking, ts |-> ts,
                    signature |-> block.signature] >>
           ELSE << [type |-> "thinking", content |-> block.thinking, ts |-> ts] >>
      [] block.type = "text" ->
           IF block.text # ""
           THEN << [role |-> "assistant", content |-> block.text, ts |-> ts] >>
           ELSE << >>
      [] block.type = "tool_use" ->
           << [type |-> "tool_call", name |-> block.name, id |-> block.id,
               input |-> block.input] >>
      [] OTHER -> << >>

\* Mutant of parse_response: now() is read once for every block.
RECURSIVE parse_response_late(_, _, _)
parse_response_late(content, ts, k) ==
    IF content = << >> THEN << >>
    ELSE ParseBlock(Head(content), ts + k)
           \o parse_response_late(Tail(content), ts, k + 1)

parse_response_ts_per_block(content, ts) == parse_response_late(content, ts, 0)

\* ts = now() is read once, then the blocks are parsed in order.
RECURSIVE parse_response(_, _)
parse_response(content, ts) ==
    IF content = << >> THEN << >>
    ELSE ParseBlock(Head(content), ts) \o parse_response(Tail(content), ts)

\* [m for m in messages if m.get("type") == "tool_call"]
RECURSIVE FilterToolCalls(_)
FilterToolCalls(ms) ==
    IF ms = << >> THEN << >>
    ELSE IF Get(Head(ms), "type") = "tool_call"
         THEN << Head(ms) >> \o FilterToolCalls(Tail(ms))
         ELSE FilterToolCalls(Tail(ms))

(***************************************************************************)
(* to_api_messages: generic messages -> the turns of a provider request.   *)
(***************************************************************************)
\* A Python int used as a tool output, and a Python list.
PyInt(n) == [py |-> "int", v |-> n]
List(xs) == [py |-> "list", v |-> xs]

\* json.dumps of a tool output: an int is written in decimal, a str is put
\* between double quotes.
json_dumps(x) ==
    CASE x.py = "int" -> ToString(x.v)
      [] x.py = "str" -> "\"" \o x.v \o "\""

\* The locals of to_api_messages before the first message.
NoTurns == [api_messages |-> << >>, assistant_blocks |-> << >>,
            tool_result_blocks |-> << >>]

\* Mutant of flush_assistant: the pending blocks are dropped, no turn is
\* appended.
flush_assistant_drops(st) == [st EXCEPT !.assistant_blocks = << >>]

flush_assistant(st) ==
    IF st.assistant_blocks # << >>
    THEN [st EXCEPT !.api_messages =
                        Append(@, [role |-> "assistant",
                                   content |-> List(st.assistant_blocks)]),
                    !.assistant_blocks = << >>]
    ELSE st

flush_tool_results(st) ==
    IF st.tool_result_blocks # << >>
    THEN [st EXCEPT !.api_messages =
                        Append(@, [role |-> "user",
                                   content |-> List(st.tool_result_blocks)]),
                    !.tool_result_blocks = << >>]
    ELSE st

\* Mutant of the thinking branch: the signature is not copied.
ThinkingBlockUnsigned(msg) == [type |-> "thinking", thinking |-> msg.content]

\* block = {"type": "thinking", ...}; the signature is copied when present.
ThinkingBlock(msg) ==
    IF "signature" \in DOMAIN msg
    THEN [type |-> "thinking", thinking |-> msg.content,
          signature |-> msg.signature]
    ELSE [type |-> "thinking", thinking |-> msg.content]

\* Mutant of the tool_result block: every output goes through json.dumps.
ToolResultBlockAlwaysJson(msg) ==
    [type |-> "tool_result", tool_use_id |-> msg.id,
     content |-> json_dumps(msg.output)]

\* The tool_result block: a str output as it is, any other output as JSON.
ToolResultBlock(msg) ==
    [type |-> "tool_result", tool_use_id |-> msg.id,
     content |-> IF msg.output.py = "str" THEN msg.output.v
                 ELSE json_dumps(msg.output)]

\* Mutant of the user branch: the pending tool results are not flushed.
UserStepNoFlush(st, msg) ==
    [flush_assistant(st) EXCEPT
        !.api_messages = Append(@, [role |-> "user", content |-> Str(msg.content)])]

\* elif role == "user": both pending turns are flushed, then the entry
\* becomes a turn of its own.
UserStep(st, msg) ==
    [flush_tool_results(flush_assistant(st)) EXCEPT
        !.api_messages = Append(@, [role |-> "user", content |-> Str(msg.content)])]

\* Mutant of the system branch: the entry is sent as a user turn.
SystemStepAsTurn(st, msg) == UserStep(st, msg)

\* if role == "system": continue
SystemStep(st, msg) == st

\* One round of the for loop over the messages.
ToApiStep(st, msg) ==
    LET role == Get(msg, "role")
        msg_type == Get(msg, "type")
    IN CASE role = "system" -> SystemStep(st, msg)
         [] role = "user" -> UserStep(st, msg)
         [] role = "assistant" ->
              [flush_tool_results(st) EXCEPT
                  !.assistant_blocks =
                      Append(@, [type |-> "text", text |-> msg.content])]
         [] role = None /\ msg_type = "thinking" ->
              [flush_tool_results(st) EXCEPT
                  !.assistant_blocks = Append(@, ThinkingBlock(msg))]
         [] role = None /\ msg_type = "tool_call" ->
              [flush_tool_results(st) EXCEPT
                  !.assistant_blocks =
                      Append(@, [type |-> "tool_use", id |-> msg.id,
                                 name |-> msg.name, input |-> msg.input])]
         [] role = None /\ msg_type = "tool_result" ->
              [flush_assistant(st) EXCEPT
                  !.tool_result_blocks = Append(@, ToolResultBlock(msg))]
         [] OTHER -> st

RECURSIVE ToApiLoop(_, _)
ToApiLoop(st, ms) ==
    IF ms = << >> THEN st
    ELSE ToApiLoop(ToApiStep(st, Head(ms)), Tail(ms))

to_api_messages(ms) ==
    flush_tool_results(flush_assistant(ToApiLoop(NoTurns, ms))).api_messages

\* [m["content"] for m in session["messages"] if m.get("role") == "system"]
RECURSIVE system_prompts(_)
system_prompts(s) ==
    IF s = << >> THEN << >>
    ELSE IF Get(Head(s), "role") = "system"
         THEN << Head(s).content >> \o system_prompts(Tail(s))
         ELSE system_prompts(Tail(s))

\* api_session: the turns and, when there is a system entry, the text of the
\* first one.
Request(s) ==
    IF system_prompts(s) # << >>
    THEN [messages |-> to_api_messages(s), system |-> system_prompts(s)[1]]
    ELSE [messages |-> to_api_messages(s)]

\* The list objects behind session["messages"]: the one of the session the
\* caller made, and the one copy.deepcopy allocates.
SessionList == 1
NewList == 2

\* Mutant of fork_session: copy.copy, a new dict around the same list.
fork_session_shallow(s) == [list |-> SessionList, messages |-> s]

\* fork_session: copy.deepcopy, a new list with equal entries.
fork_session(s) == [list |-> NewList, messages |-> s]

\* No call was made yet; no fork was taken yet.
NoCall == [op |-> "none"]
NoFork == [list |-> 0, messages |-> << >>]

(***************************************************************************)
(* The futures of execute_tool_calls.                                      *)
(***************************************************************************)
Pending == [state |-> "pending"]

\* The futures that have completed so far.
NumFinished ==
    Cardinality({k \in DOMAIN futures : futures[k].state = "finished"})

\* A completed future: seq is its place in the order of completion, early
\* tells that it completed before as_completed was called.
FinishedAt(outcome, seq, early) ==
    [state |-> "finished", outcome |-> outcome, yielded |-> FALSE,
     seq |-> seq, early |-> early]

\* A completed future whose time of completion is not followed: it counts
\* as finished before as_completed was called, so that as_completed may
\* yield it at any time.  The loop specification uses it: its finished
\* futures are yielded in every order, which includes every order
\* as_completed can produce.
Finished(outcome) == FinishedAt(outcome, 0, TRUE)

NoFutures == [k \in {} |-> Pending]

\* Mutant of as_completed: the futures are yielded in submission order.
MayYieldInInputOrder(k) ==
    \A j \in DOMAIN futures : j < k => futures[j].state = "finished" /\ futures[j].yielded

\* as_completed(fs) yields first the futures that were finished when it was
\* called, in the order of a set (any order), then the others as they
\* complete, in the order of their completion.
MayYield(k) ==
    \/ futures[k].early
    \/ \A j \in DOMAIN futures \ {k} :
          (futures[j].state = "finished" /\ ~futures[j].yielded) =>
              (~futures[j].early /\ futures[j].seq > futures[k].seq)

AllFinished == \A k \in DOMAIN futures : futures[k].state = "finished"
AllYielded == \A k \in DOMAIN futures :
                futures[k].state = "finished" /\ futures[k].yielded

\* Mutant of the handler's result: the id of the last call of the batch is
\* used (tc left over from the submit loop) instead of the future's call.
ReturnedResultStaleCall(tc, output) ==
    [type |-> "tool_result", id |-> tool_calls[Len(tool_calls)].id,
     output |-> output]

\* Mutant of the failure's result: the message without the "Error: " prefix.
RaisedResultNoPrefix(tc, e) ==
    [type |-> "tool_result", id |-> tc.id, output |-> Str(e.msg)]

\* Mutant of the unknown-tool result: the message does not name the tool.
UnknownToolResultNoName(tc) ==
    [type |-> "tool_result", id |-> tc.id, output |-> Str("Error: unknown tool")]

UnknownToolResult(tc) ==
    [type |-> "tool_result", id |-> tc.id,
     output |-> Str("Error: unknown tool '" \o tc.name \o "'")]

ReturnedResult(tc, output) ==
    [type |-> "tool_result", id |-> tc.id, output |-> output]

RaisedResult(tc, e) ==
    [type |-> "tool_result", id |-> tc.id, output |-> Str("Error: " \o e.msg)]

(***************************************************************************)
(* Sequential dispatch (agent_loop(..., parallel=False)): the calls are    *)
(* processed one at a time in input order, each under the same contract    *)
(* as in concurrent dispatch.  A failure that is no Exception ends the     *)
(* dispatch.                                                               *)
(***************************************************************************)
SequentialResult(tc, handlers) ==
    IF tc.name \notin DOMAIN handlers
    THEN [type |-> "tool_result", id |-> tc.id,
          output |-> Str("Error: unknown tool '" \o tc.name \o "'")]
    ELSE IF handlers[tc.name].kind = "return"
         THEN [type |-> "tool_result", id |-> tc.id,
               output |-> handlers[tc.name].value]
         ELSE [type |-> "tool_result", id |-> tc.id,
               output |-> Str("Error: " \o handlers[tc.name].msg)]

RECURSIVE execute_tool_calls_sequential(_, _)
execute_tool_calls_sequential(tcs, handlers) ==
    IF tcs = << >> THEN << >>
    ELSE IF Head(tcs).name \in DOMAIN handlers
            /\ handlers[Head(tcs).name].kind = "BaseException"
         THEN << >>
         ELSE << SequentialResult(Head(tcs), handlers) >>
                \o execute_tool_calls_sequential(Tail(tcs), handlers)

(***************************************************************************)
(* The line logger.                                                        *)
(***************************************************************************)
\* if len(line) > 120: line = line[:117] + "..."
LineLimit == 120
KeptChars == 117

\* label = role or msg_type
Label(m) == IF "role" \in DOMAIN m THEN m.role ELSE m.type

\* strftime("%Y-%m-%dT%H:%M:%SZ") of the time n: 20 characters.
Timestamp(n) == "2026-01-01T00:00:0" \o ToString(n) \o "Z"

\* content.replace("\n", " ")
RECURSIVE replace_newlines(_)
replace_newlines(s) ==
    IF Len(s) = 0 THEN ""
    ELSE IF Len(s) = 1 THEN (IF s = "\n" THEN " " ELSE s)
    ELSE LET half == Len(s) \div 2
         IN replace_newlines(SubSeq(s, 1, half))
              \o replace_newlines(SubSeq(s, half + 1, Len(s)))

\* str.strip(): white space is removed at both ends.
Whitespace == {" ", "\n", "\t"}

RECURSIVE lstrip(_)
lstrip(s) ==
    IF s # "" /\ Head(s) \in Whitespace THEN lstrip(Tail(s)) ELSE s

RECURSIVE rstrip(_)
rstrip(s) ==
    IF s # "" /\ SubSeq(s, Len(s), Len(s)) \in Whitespace
    THEN rstrip(SubSeq(s, 1, Len(s) - 1))
    ELSE s

strip(s) == rstrip(lstrip(s))

\* json.dumps of a tool input: a dict of one key with an int value.
json_dumps_input(input) ==
    LET key == CHOOSE k \in DOMAIN input : TRUE
    IN "{\"" \o key \o "\": " \o ToString(input[key]) \o "}"

\* The content log prints, by the type of the message.
LogContent(message) ==
    CASE Get(message, "type") = "thinking" -> message.content
      [] Get(message, "type") = "tool_call" ->
           message.name \o "(" \o json_dumps_input(message.input) \o ")"
      [] Get(message, "type") = "tool_result" ->
           IF message.output.py = "str" THEN message.output.v
           ELSE json_dumps(message.output)
      [] OTHER -> message.content

\* line = f"{ts} {agent} {label} {content}", before the cut.
RenderedLine(message, name) ==
    LET ts == IF "ts" \in DOMAIN message THEN Timestamp(message.ts)
              ELSE Timestamp(now)
        agent == IF name = None \/ name = "" THEN "agent" ELSE name
        label == Label(message)
        content == strip(replace_newlines(LogContent(message)))
    IN ts \o " " \o agent \o " " \o label \o " " \o content

\* Mutant of the cut: line[:120] + "...".
TruncateAfterLimit(line) ==
    IF Len(line) > LineLimit THEN SubSeq(line, 1, LineLimit) \o "..." ELSE line

\* if len(line) > 120: line = line[:117] + "..."
Truncate(line) ==
    IF Len(line) > LineLimit THEN SubSeq(line, 1, KeptChars) \o "..." ELSE line

\* log(message, name): the line that is printed.
log(message, name) == Truncate(RenderedLine(message, name))

\* Values json.dumps accepts.
Serializable(x) == x.py \in {"str", "int"}

\* Mutant of the logger: a tool_result cannot be rendered and log raises.
LogOutcomeRejectsResults(message, name) ==
    IF Get(message, "type") = "tool_result"
    THEN [kind |-> "Exception", msg |-> "not JSON serializable", from |-> "log"]
    ELSE NoException

\* What a call log(message, name) does to its caller: it returns None after
\* printing the line (NoException), unless json.dumps rejects the output of
\* a tool_result, which raises TypeError.
LogOutcome(message, name) ==
    IF Get(message, "type") = "tool_result" /\ ~Serializable(message.output)
    THEN [kind |-> "Exception", msg |-> "not JSON serializable", from |-> "log"]
    ELSE NoException

(***************************************************************************)
(* agent_loop, step by step.                                               *)
(***************************************************************************)
Init ==
    /\ session = InitialSession
    /\ max_iterations \in {NoCap} \cup {<<n>> : n \in 0..MaxIter}
    /\ pc = "while"
    /\ iteration = 0
    /\ api_response = << >>
    /\ messages = << >>
    /\ tool_calls = << >>
    /\ results = << >>
    /\ futures = NoFutures
    /\ idx = 1
    /\ raised = NoException
    /\ clock = 1
    /\ invocations = 0
    /\ handlerRuns = 0
    /\ blocksUsed = 0
    /\ history = << >>
    /\ call = NoCall
    /\ forked = NoFork

\* Mutants of the while condition: one iteration too many, one too few.
LoopConditionOffByOne == max_iterations = NoCap \/ iteration <= max_iterations[1]
LoopConditionStopsEarly == max_iterations = NoCap \/ iteration + 1 < max_iterations[1]

\* Mutant of the while condition: while True.
LoopConditionIgnoresCap == TRUE

\* while max_iterations is None or iteration < max_iterations
LoopCondition == max_iterations = NoCap \/ iteration < max_iterations[1]

\* Mutant of the break test: the loop goes on although nothing was called.
BreakConditionNever == FALSE

\* Mutant of the break test: only a reply with text ends the loop.
BreakConditionNeedsText ==
    /\ FilterToolCalls(messages) = << >>
    /\ \E k \in 1..Len(messages) : Get(messages[k], "role") = "assistant"

\* if not tool_calls: break
BreakCondition == FilterToolCalls(messages) = << >>

\* Mutant of the while loop: the body runs once before the first test.
WhileTestAfterBody ==
    /\ pc = "while"
    /\ IF iteration = 0 \/ LoopCondition
       THEN /\ iteration' = iteration + 1
            /\ pc' = "invoke"
       ELSE /\ pc' = "done"
            /\ UNCHANGED iteration
    /\ UNCHANGED <<session, max_iterations, api_response,
                   messages, tool_calls, results, futures, idx, raised, clock,
                   invocations, handlerRuns, blocksUsed, history>>
    /\ UNCHANGED callerVars

\* The while test: enter the body (iteration += 1) or leave and return.
WhileTest ==
    /\ pc = "while"
    /\ IF LoopCondition
       THEN /\ iteration' = iteration + 1
            /\ pc' = "invoke"
       ELSE /\ pc' = "done"
            /\ UNCHANGED iteration
    /\ UNCHANGED <<session, max_iterations, api_response,
                   messages, tool_calls, results, futures, idx, raised, clock,
                   invocations, handlerRuns, blocksUsed, history>>
    /\ UNCHANGED callerVars

\* invoke_model returns a response after some time; it is parsed at once,
\* with ts = now().
InvokeModelReturns ==
    /\ pc = "invoke"
    /\ invocations < MaxIter
    /\ clock' = clock + 1
    /\ \E r \in Replies :
         /\ Len(r) <= MaxBlocks - blocksUsed
         /\ api_response' = r
         /\ messages' = parse_response(r, now')
         /\ blocksUsed' = blocksUsed + Len(r)
    /\ invocations' = invocations + 1
    /\ idx' = 1
    /\ pc' = "extend"
    /\ history' = Append(history, [reply |-> messages', results |-> << >>])
    /\ UNCHANGED <<session, max_iterations, iteration,
                   tool_calls, results, futures, raised, handlerRuns>>
    /\ UNCHANGED callerVars

\* Mutant of the model failure: it is caught and the call is tried again.
InvokeModelRaisesRetried ==
    /\ pc = "invoke"
    /\ invocations < MaxIter
    /\ invocations' = invocations + 1
    /\ UNCHANGED <<session, max_iterations, pc, iteration, api_response,
                   messages, tool_calls, results, futures, idx, raised, clock,
                   handlerRuns, blocksUsed, history>>
    /\ UNCHANGED callerVars

\* Mutant of the model failure: the session is rolled back to what it was
\* when agent_loop was called.
InvokeModelRaisesRollsBack ==
    /\ pc = "invoke"
    /\ invocations < MaxIter
    /\ raised' = ModelError
    /\ invocations' = invocations + 1
    /\ pc' = "failed"
    /\ session' = InitialSession
    /\ UNCHANGED <<max_iterations, iteration,
                   api_response, messages, tool_calls, results, futures, idx,
                   clock, handlerRuns, blocksUsed, history>>
    /\ UNCHANGED callerVars

\* invoke_model raises: nothing in agent_loop catches it.
InvokeModelRaises ==
    /\ pc = "invoke"
    /\ invocations < MaxIter
    /\ raised' = ModelError
    /\ invocations' = invocations + 1
    /\ pc' = "failed"
    /\ UNCHANGED <<session, max_iterations, iteration,
                   api_response, messages, tool_calls, results, futures, idx,
                   clock, handlerRuns, blocksUsed, history>>
    /\ UNCHANGED callerVars

\* for msg in messages: extend_session(session, msg); log(msg, name) with
\* name=None.  An exception of log leaves agent_loop.
ExtendMessage ==
    /\ pc = "extend"
    /\ idx <= Len(messages)
    /\ session' = extend_session(session, messages[idx])
    /\ LET log_raised == LogOutcome(messages[idx], None) IN
         IF log_raised = NoException
         THEN /\ idx' = idx + 1
              /\ UNCHANGED <<pc, raised>>
         ELSE /\ raised' = log_raised
              /\ pc' = "failed"
              /\ UNCHANGED idx
    /\ UNCHANGED <<max_iterations, iteration, api_response,
                   messages, tool_calls, results, futures, clock,
                   invocations, handlerRuns, blocksUsed, history>>
    /\ UNCHANGED callerVars

\* Mutant of the dispatch: in the last iteration the budget allows, the tool
\* calls are not dispatched.
SelectToolCallsNotInLastIteration ==
    /\ pc = "extend"
    /\ idx > Len(messages)
    /\ tool_calls' = FilterToolCalls(messages)
    /\ IF BreakCondition
          \/ (max_iterations # NoCap /\ iteration = max_iterations[1])
       THEN /\ pc' = "done"
            /\ UNCHANGED <<results, futures, idx>>
       ELSE /\ pc' = "submit"
            /\ results' = << >>
            /\ futures' = NoFutures
            /\ idx' = 1
    /\ UNCHANGED <<session, max_iterations, iteration,
                   api_response, messages, raised, clock, invocations,
                   handlerRuns, blocksUsed, history>>
    /\ UNCHANGED callerVars

\* tool_calls = [...]; if not tool_calls: break.  Otherwise execute_tool_calls
\* starts: results = [], the executor is created.
SelectToolCalls ==
    /\ pc = "extend"
    /\ idx > Len(messages)
    /\ tool_calls' = FilterToolCalls(messages)
    /\ IF BreakCondition
       THEN /\ pc' = "done"
            /\ UNCHANGED <<results, futures, idx>>
       ELSE /\ pc' = "submit"
            /\ results' = << >>
            /\ futures' = NoFutures
            /\ idx' = 1
    /\ UNCHANGED <<session, max_iterations, iteration,
                   api_response, messages, raised, clock, invocations,
                   handlerRuns, blocksUsed, history>>
    /\ UNCHANGED callerVars

\* Mutant of the submit loop: tool_handlers[tc["name"]] instead of .get, so
\* an unknown name raises KeyError in the control thread.
SubmitToolCallKeyError ==
    /\ pc = "submit"
    /\ idx <= Len(tool_calls)
    /\ LET tc == tool_calls[idx] IN
         IF tc.name \notin DOMAIN tool_handlers
         THEN /\ raised' = [kind |-> "Exception", msg |-> tc.name,
                            from |-> "execute_tool_calls"]
              /\ pc' = "shutdown"
              /\ UNCHANGED <<futures, results, idx>>
         ELSE /\ futures' = (idx :> Pending) @@ futures
              /\ idx' = idx + 1
              /\ pc' = "submit"
              /\ UNCHANGED <<results, raised>>
    /\ UNCHANGED <<session, max_iterations, iteration,
                   api_response, messages, tool_calls, clock,
                   invocations, handlerRuns, blocksUsed, history>>
    /\ UNCHANGED callerVars

\* Mutant of the submit loop: the continue after the unknown-tool result is
\* missing, so the call is submitted too and fails in its worker.
SubmitToolCallNoContinue ==
    /\ pc = "submit"
    /\ idx <= Len(tool_calls)
    /\ LET tc == tool_calls[idx] IN
         IF tc.name \notin DOMAIN tool_handlers
         THEN /\ results' = Append(results, UnknownToolResult(tc))
              /\ futures' = (idx :> Finished(Raises("not callable"))) @@ futures
         ELSE /\ futures' = (idx :> Pending) @@ futures
              /\ UNCHANGED results
    /\ idx' = idx + 1
    /\ pc' = "submit"
    /\ UNCHANGED <<session, max_iterations, iteration,
                   api_response, messages, tool_calls, raised, clock,
                   invocations, handlerRuns, blocksUsed, history>>
    /\ UNCHANGED callerVars

\* for tc in tool_calls: an unknown name gives its result at once, any other
\* call is submitted to the executor.
SubmitToolCall ==
    /\ pc = "submit"
    /\ idx <= Len(tool_calls)
    /\ LET tc == tool_calls[idx] IN
         IF tc.name \notin DOMAIN tool_handlers
         THEN /\ results' = Append(results, UnknownToolResult(tc))
              /\ UNCHANGED futures
         ELSE /\ futures' = (idx :> Pending) @@ futures
              /\ UNCHANGED results
    /\ idx' = idx + 1
    /\ pc' = "submit"
    /\ UNCHANGED <<session, max_iterations, iteration,
                   api_response, messages, tool_calls, raised, clock,
                   invocations, handlerRuns, blocksUsed, history>>
    /\ UNCHANGED callerVars

\* Mutant of the worker: it appends a result to the session by itself.
WorkerRunAppends(k) ==
    /\ k \in DOMAIN futures
    /\ futures[k].state = "pending"
    /\ futures' = [futures EXCEPT ![k] = Finished(tool_handlers[tool_calls[k].name])]
    /\ handlerRuns' = handlerRuns + 1
    /\ session' = Append(session, [type |-> "tool_result", id |-> tool_calls[k].id,
                                   output |-> Str("done")])
    /\ UNCHANGED <<max_iterations, pc, iteration,
                   api_response, messages, tool_calls, results, idx, raised,
                   clock, invocations, blocksUsed, history>>
    /\ UNCHANGED callerVars

\* The submit loop is over: as_completed(future_to_tc) is called and takes
\* note of the futures that are finished already.
AsCompleted ==
    /\ pc = "submit"
    /\ idx > Len(tool_calls)
    /\ pc' = "collect"
    /\ UNCHANGED <<session, max_iterations, iteration,
                   api_response, messages, tool_calls, results, futures, idx,
                   raised, clock, invocations, handlerRuns, blocksUsed, history>>
    /\ UNCHANGED callerVars

\* A worker thread runs handler(**tc["input"]) and completes its future.
WorkerRun(k) ==
    /\ k \in DOMAIN futures
    /\ futures[k].state = "pending"
    /\ futures' = [futures EXCEPT ![k] = Finished(tool_handlers[tool_calls[k].name])]
    /\ handlerRuns' = handlerRuns + 1
    /\ UNCHANGED <<session, max_iterations, pc, iteration,
                   api_response, messages, tool_calls, results, idx, raised,
                   clock, invocations, blocksUsed, history>>
    /\ UNCHANGED callerVars

\* Mutant of the collection: the except clause raises the failure again, so
\* a handler's Exception ends the batch.
CollectFutureReraises(k) ==
    /\ pc = "collect"
    /\ k \in DOMAIN futures
    /\ futures[k].state = "finished"
    /\ ~futures[k].yielded
    /\ MayYield(k)
    /\ futures' = [futures EXCEPT ![k].yielded = TRUE]
    /\ LET tc == tool_calls[k]
           outcome == futures[k].outcome
       IN IF outcome.kind = "return"
          THEN /\ results' = Append(results, ReturnedResult(tc, outcome.value))
               /\ UNCHANGED <<pc, raised>>
          ELSE /\ raised' = [kind |-> outcome.kind, msg |-> outcome.msg,
                             from |-> tc.name]
               /\ pc' = "shutdown"
               /\ UNCHANGED results
    /\ UNCHANGED <<session, max_iterations, iteration,
                   api_response, messages, tool_calls, idx, clock, invocations,
                   handlerRuns, blocksUsed, history>>
    /\ UNCHANGED callerVars

\* A worker thread completes its future, and the time of completion is
\* followed: its place in the order of completion, and whether as_completed
\* was called already.
WorkerRunInOrder(k) ==
    /\ k \in DOMAIN futures
    /\ futures[k].state = "pending"
    /\ futures' = [futures EXCEPT ![k] =
                      FinishedAt(tool_handlers[tool_calls[k].name],
                                 NumFinished + 1, pc = "submit")]
    /\ handlerRuns' = handlerRuns + 1
    /\ UNCHANGED <<session, max_iterations, pc, iteration,
                   api_response, messages, tool_calls, results, idx, raised,
                   clock, invocations, blocksUsed, history>>
    /\ UNCHANGED callerVars

\* for future in as_completed(future_to_tc): a finished future is yielded,
\* in the order as_completed keeps; its value or its Exception becomes a
\* result, any other BaseException leaves the loop.
CollectFuture(k) ==
    /\ pc = "collect"
    /\ k \in DOMAIN futures
    /\ futures[k].state = "finished"
    /\ ~futures[k].yielded
    /\ MayYield(k)
    /\ futures' = [futures EXCEPT ![k].yielded = TRUE]
    /\ LET tc == tool_calls[k]
           outcome == futures[k].outcome
       IN CASE outcome.kind = "return" ->
                 /\ results' = Append(results, ReturnedResult(tc, outcome.value))
                 /\ UNCHANGED <<pc, raised>>
            [] outcome.kind = "Exception" ->
                 /\ results' = Append(results, RaisedResult(tc, outcome))
                 /\ UNCHANGED <<pc, raised>>
            [] OTHER ->
                 /\ raised' = [kind |-> outcome.kind, msg |-> outcome.msg,
                               from |-> tc.name]
                 /\ pc' = "shutdown"
                 /\ UNCHANGED results
    /\ UNCHANGED <<session, max_iterations, iteration,
                   api_response, messages, tool_calls, idx, clock, invocations,
                   handlerRuns, blocksUsed, history>>
    /\ UNCHANGED callerVars

\* Mutant of the executor: as_completed and the shutdown do not wait, the
\* results collected so far are returned while workers still run.
ExecutorExitNoWait ==
    /\ pc = "collect"
    /\ results # << >>
    /\ pc' = "results"
    /\ idx' = 1
    /\ history' = [history EXCEPT ![Len(history)].results = results]
    /\ UNCHANGED <<session, max_iterations, iteration,
                   api_response, messages, tool_calls, results, futures, raised,
                   clock, invocations, handlerRuns, blocksUsed>>
    /\ UNCHANGED callerVars

\* The with block ends after the last future was yielded: shutdown(wait=True)
\* has nothing to wait for, execute_tool_calls returns results.
ExecutorExit ==
    /\ pc = "collect"
    /\ AllYielded
    /\ pc' = "results"
    /\ idx' = 1
    /\ history' = [history EXCEPT ![Len(history)].results = results]
    /\ UNCHANGED <<session, max_iterations, iteration,
                   api_response, messages, tool_calls, results, futures, raised,
                   clock, invocations, handlerRuns, blocksUsed>>
    /\ UNCHANGED callerVars

\* The with block is left by an exception: shutdown(wait=True) joins the
\* workers still running, then the exception leaves agent_loop.
ExecutorExitRaising ==
    /\ pc = "shutdown"
    /\ AllFinished
    /\ pc' = "failed"
    /\ UNCHANGED <<session, max_iterations, iteration,
                   api_response, messages, tool_calls, results, futures, idx,
                   raised, clock, invocations, handlerRuns, blocksUsed, history>>
    /\ UNCHANGED callerVars

\* for result in results: extend_session(session, result); log(result, name)
\* with name=None.  After the last one the while test is next; an exception
\* of log leaves agent_loop.
ExtendResult ==
    /\ pc = "results"
    /\ idx <= Len(results)
    /\ session' = extend_session(session, results[idx])
    /\ LET log_raised == LogOutcome(results[idx], None) IN
         IF log_raised = NoException
         THEN /\ idx' = idx + 1
              /\ pc' = IF idx = Len(results) THEN "while" ELSE "results"
              /\ UNCHANGED raised
         ELSE /\ raised' = log_raised
              /\ pc' = "failed"
              /\ UNCHANGED idx
    /\ UNCHANGED <<max_iterations, iteration, api_response,
                   messages, tool_calls, results, futures, clock,
                   invocations, handlerRuns, blocksUsed, history>>
    /\ UNCHANGED callerVars

Next ==
    \/ WhileTest
    \/ InvokeModelReturns
    \/ InvokeModelRaises
    \/ ExtendMessage
    \/ SelectToolCalls
    \/ SubmitToolCall
    \/ AsCompleted
    \/ \E k \in 1..MaxBlocks : WorkerRun(k)
    \/ \E k \in 1..MaxBlocks : CollectFuture(k)
    \/ ExecutorExit
    \/ ExecutorExitRaising
    \/ ExtendResult

Spec == Init /\ [][Next]_vars

TypeOK ==
    /\ pc \in {"while", "invoke", "extend", "submit", "collect", "shutdown",
               "results", "done", "failed"}
    /\ iteration \in 0..(MaxIter + 1)
    /\ invocations \in 0..MaxIter
    /\ pc \in {"submit", "collect", "shutdown", "results"} =>
         Len(results) <= Len(tool_calls)

(***************************************************************************)
(* Helpers of the properties.                                              *)
(***************************************************************************)
Labels(s) == [k \in 1..Len(s) |-> Label(s[k])]

IsToolCall(m) == Get(m, "type") = "tool_call"
IsToolResult(m) == Get(m, "type") = "tool_result"

Positions(s, Test(_)) == {k \in 1..Len(s) : Test(s[k])}

NumToolCalls(s) == Cardinality(Positions(s, IsToolCall))
NumToolResults(s) == Cardinality(Positions(s, IsToolResult))

\* What the history says the session holds: per iteration the reply's
\* messages, then the results of that iteration.
RECURSIVE Flatten(_)
Flatten(h) ==
    IF h = << >> THEN << >>
    ELSE Head(h).reply \o Head(h).results \o Flatten(Tail(h))

\* The ids of the entries of s, with their multiplicity.
IdCount(s, i) == Cardinality({k \in 1..Len(s) : s[k].id = i})
AllToolIds == {b.id : b \in ToolUseBlocks}
SameIds(s, t) == \A i \in AllToolIds : IdCount(s, i) = IdCount(t, i)

Capped == max_iterations # NoCap
Cap == max_iterations[1]

(***************************************************************************)
(* C1.  With max_iterations = N, invoke_model is called at most N times,   *)
(* whatever the model replies and whatever the handlers do.                *)
(***************************************************************************)
C1_AtMostNInvocations == Capped => invocations <= Cap

\* The budget is used up: N = MaxIter calls were made and the loop returned.
C1_Witness == pc = "done" /\ Capped /\ Cap = MaxIter /\ invocations = Cap

(***************************************************************************)
(* C2.  A parsed reply without tool_call stops the loop in the same        *)
(* iteration: from the moment the reply is parsed, every step of the loop  *)
(* leaves the number of model invocations and of handler runs unchanged,   *)
(* submits nothing to the executor, appends only messages of that reply    *)
(* (never a tool_result), and the step after the last append is the return.*)
(***************************************************************************)
ReplyWithoutToolCall == pc = "extend" /\ FilterToolCalls(messages) = << >>

C2_StopsWithoutToolCalls ==
    [][ReplyWithoutToolCall =>
         /\ invocations' = invocations
         /\ handlerRuns' = handlerRuns
         /\ futures' = futures
         /\ results' = results
         /\ \/ session' = session
            \/ /\ idx <= Len(messages)
               /\ session' = Append(session, messages[idx])
               /\ ~IsToolResult(messages[idx])
         /\ pc' = IF idx > Len(messages) THEN "done" ELSE "extend"
         /\ iteration' = iteration]_vars

\* A reply of plain assistant text on the first turn has stopped the loop.
C2_Witness ==
    /\ pc = "done"
    /\ invocations = 1
    /\ messages # << >>
    /\ FilterToolCalls(messages) = << >>
    /\ Labels(session) = <<"system", "user", "assistant">>

(***************************************************************************)
(* C3.  Without a cap, when the loop has returned the k-th reply is the    *)
(* first one without tool_call, exactly k invocations were made, and the   *)
(* session is the initial session followed, per iteration and in order, by *)
(* the reply's messages and then that iteration's tool_results, one per    *)
(* tool_call of the reply.                                                 *)
(***************************************************************************)
C3_StopsAtFirstToolFreeReply ==
    (pc = "done" /\ ~Capped) =>
        /\ invocations >= 1
        /\ Len(history) = invocations
        /\ \A j \in 1..Len(history) :
             (FilterToolCalls(history[j].reply) = << >>) <=> (j = Len(history))
        /\ session = InitialSession \o Flatten(history)
        /\ \A j \in 1..Len(history) :
             /\ \A k \in 1..Len(history[j].results) :
                  IsToolResult(history[j].results[k])
             /\ Len(history[j].results) = Len(FilterToolCalls(history[j].reply))
             /\ SameIds(history[j].results, FilterToolCalls(history[j].reply))

\* k = 2 with one tool call: thinking, tool_call, tool_result, assistant.
C3_Witness ==
    /\ pc = "done"
    /\ ~Capped
    /\ invocations = 2
    /\ Labels(session) = <<"system", "user", "thinking", "tool_call",
                           "tool_result", "assistant">>

(***************************************************************************)
(* C4.  With max_iterations = N and a model whose every reply holds        *)
(* exactly one tool_call, for a registered handler, the loop returns with  *)
(* exactly N tool_call entries in the session.                             *)
(***************************************************************************)
OneRegisteredCall(reply) ==
    LET tcs == FilterToolCalls(reply)
    IN Len(tcs) = 1 /\ tcs[1].name \in DOMAIN tool_handlers

C4_ExactlyNToolCalls ==
    (pc = "done" /\ Capped /\ \A j \in 1..Len(history) : OneRegisteredCall(history[j].reply))
        => /\ NumToolCalls(session) = Cap
           /\ invocations = Cap

\* The model asked for a tool in each of N = MaxIter iterations.
C4_Witness ==
    /\ pc = "done"
    /\ Capped
    /\ Cap = MaxIter
    /\ Len(history) = MaxIter
    /\ \A j \in 1..Len(history) : OneRegisteredCall(history[j].reply)
(***************************************************************************)
(* Helpers about one batch of tool calls.                                  *)
(***************************************************************************)
Registered(n) == n \in DOMAIN tool_handlers

\* Calls of the running batch with this id and name; results with this id
\* and this output text.
CallsWith(i, n) ==
    Cardinality({k \in 1..Len(tool_calls) :
                   tool_calls[k].id = i /\ tool_calls[k].name = n})
ResultsWith(i, text) ==
    Cardinality({k \in 1..Len(results) :
                   results[k].id = i /\ results[k].output = Str(text)})

\* tool_call entries of s whose handler is registered: the calls a handler
\* runs for.
NumRegisteredCalls(s) ==
    Cardinality({k \in 1..Len(s) : IsToolCall(s[k]) /\ Registered(s[k].name)})

\* execute_tool_calls has returned and its results are being appended.
BatchReturned == pc = "results"

\* The loop goes on: the submit loop runs to its end whatever the names are,
\* the results of a batch are appended, the while test follows, and with
\* budget left the next step is the model invocation.
LoopGoesOn ==
    /\ BatchReturned => (pc' \in {"results", "while"} /\ raised' = NoException)
    /\ (pc = "while" /\ LoopCondition) => pc' = "invoke"
    /\ pc = "submit" => pc' \in {"submit", "collect"}

(***************************************************************************)
(* C5.  A tool_call with an unregistered name yields exactly one           *)
(* tool_result, with the call's id and the output "Error: unknown tool     *)
(* '<name>'"; no handler runs for it (handlers have run exactly once per   *)
(* registered call); the batch returns one result per call and the loop    *)
(* goes on to the while test and, budget permitting, to the next model     *)
(* invocation.                                                             *)
(***************************************************************************)
C5_UnknownTool ==
    /\ [](BatchReturned =>
            /\ Len(results) = Len(tool_calls)
            /\ \A i \in AllToolIds : \A n \in ToolNames \ DOMAIN tool_handlers :
                 ResultsWith(i, "Error: unknown tool '" \o n \o "'") = CallsWith(i, n)
            /\ handlerRuns = NumRegisteredCalls(session)
            /\ \A k \in DOMAIN futures : Registered(tool_calls[k].name))
    /\ [](raised # NoException =>
            (raised.from = "invoke_model" \/ Registered(raised.from)))
    /\ [][LoopGoesOn]_vars

\* After a batch that held only an unknown tool, the model was invoked again
\* and saw the loop through.
C5_Witness ==
    /\ invocations = 2
    /\ pc = "done"
    /\ handlerRuns = 0
    /\ \E k \in 1..Len(session) :
         /\ IsToolResult(session[k])
         /\ session[k].id = "c2"
         /\ session[k].output = Str("Error: unknown tool 'nope'")

(***************************************************************************)
(* C6.  A handler that raises yields exactly one tool_result with the      *)
(* call's id and the output "Error: <message>"; the failure does not leave *)
(* agent_loop and the loop goes on.  Stated for the handlers whose failure *)
(* is of one of the given kinds.                                           *)
(***************************************************************************)
FailingNames(kinds) ==
    {n \in DOMAIN tool_handlers : tool_handlers[n].kind \in kinds}

\* The exception leaving agent_loop is the failure of one of these handlers.
Escaped(kinds) == raised # NoException /\ raised.from \in FailingNames(kinds)

\* agent_loop returns only on a reply without tool_call or with the budget
\* used up: nothing else, a failed tool call least of all, stops the loop.
ReturnsOnlyWhenDue ==
    pc = "done" =>
        \/ invocations >= 1 /\ FilterToolCalls(messages) = << >>
        \/ Capped /\ iteration = Cap

HandlerFailureContained(kinds) ==
    /\ BatchReturned =>
         /\ Len(results) = Len(tool_calls)
         /\ \A i \in AllToolIds : \A n \in FailingNames(kinds) :
              ResultsWith(i, "Error: " \o tool_handlers[n].msg) = CallsWith(i, n)
    /\ ~Escaped(kinds)
    /\ ReturnsOnlyWhenDue

\* C6 as claimed: for every handler that raises.
C6_AnyRaise == HandlerFailureContained({"Exception", "BaseException"})

\* C6 amended: a handler that raises an Exception (a subclass of Exception)
\* yields exactly one tool_result "Error: <message>" with the call's id, the
\* failure stays inside agent_loop and the loop goes on: it returns only on
\* a reply without tool_call or with the budget used up.
C6_ExceptionContained == HandlerFailureContained({"Exception"})

\* The handler raised, its "Error: " result is in the session, and the
\* model was invoked again.
C6_Witness ==
    /\ invocations = 2
    /\ pc = "done"
    /\ raised = NoException
    /\ \E k \in 1..Len(session) :
         /\ IsToolResult(session[k])
         /\ session[k].output = Str("Error: bad input")

(***************************************************************************)
(* C7.  When invoke_model fails, agent_loop ends with that failure: it is  *)
(* the exception leaving the call, the model is not invoked again, and no  *)
(* tool call is dispatched afterwards (no future is open and the handler   *)
(* runs are those of the earlier iterations).                              *)
(***************************************************************************)
\* invoke_model was called more often than it returned.
ModelFailed == invocations > Len(history)

C7_ModelFailurePropagates ==
    ModelFailed =>
        /\ pc = "failed"
        /\ raised = ModelError
        /\ invocations = Len(history) + 1
        /\ invocations = iteration
        /\ AllYielded
        /\ handlerRuns = NumRegisteredCalls(session)

\* The model failed in the second iteration, after a tool call was served.
C7_Witness ==
    /\ ModelFailed
    /\ invocations = 2
    /\ handlerRuns = 1
    /\ pc = "failed"
(***************************************************************************)
(* Helpers about tool ids in the session.                                  *)
(***************************************************************************)
\* tool_call entries with id i among the first n entries of s, and
\* tool_result entries with id i among them.
CallsBefore(s, n, i) ==
    Cardinality({q \in 1..n : IsToolCall(s[q]) /\ s[q].id = i})
ResultsUpTo(s, n, i) ==
    Cardinality({q \in 1..n : IsToolResult(s[q]) /\ s[q].id = i})

\* The model has given every tool_call of the session an id of its own.
ModelIdsUnique ==
    \A i \in AllToolIds : CallsBefore(session, Len(session), i) <= 1

(***************************************************************************)
(* C9.  As claimed: every tool_result's id is the id of exactly one        *)
(* tool_call that stands earlier in the session.                           *)
(***************************************************************************)
C9_ExactlyOneEarlierCall ==
    \A p \in Positions(session, IsToolResult) :
        CallsBefore(session, p - 1, session[p].id) = 1

(***************************************************************************)
(* C9 amended.  Every tool_result's id is the id of at least one tool_call *)
(* that stands earlier in the session, and up to every position the        *)
(* tool_results with an id are no more than the tool_calls with that id    *)
(* before it (each result answers a call of its own); the earlier call is  *)
(* exactly one when the model gives every tool_call an id of its own.      *)
(***************************************************************************)
C9_ResultFollowsItsCall ==
    \A p \in Positions(session, IsToolResult) :
        /\ CallsBefore(session, p - 1, session[p].id) >= 1
        /\ ResultsUpTo(session, p, session[p].id)
             <= CallsBefore(session, p - 1, session[p].id)
        /\ ModelIdsUnique => CallsBefore(session, p - 1, session[p].id) = 1

\* Two calls with different ids in one reply, both answered.
C9_Witness ==
    /\ pc = "while"
    /\ ModelIdsUnique
    /\ NumToolResults(session) = 2
    /\ \E p, q \in Positions(session, IsToolResult) : session[p].id # session[q].id

(***************************************************************************)
(* C10.  As claimed: no two tool_result entries of the session share an    *)
(* id, whatever the model does.                                            *)
(***************************************************************************)
C10_ResultIdsUnique ==
    \A i \in AllToolIds : ResultsUpTo(session, Len(session), i) <= 1

(***************************************************************************)
(* C10 amended.  The session never holds more tool_results with an id      *)
(* than tool_calls with that id, so no two tool_results share an id as     *)
(* long as the model gives every tool_call an id of its own; a model that  *)
(* reuses an id gets one tool_result per tool_call, with the shared id.    *)
(***************************************************************************)
C10_NoMoreResultsThanCalls ==
    /\ \A i \in AllToolIds :
         ResultsUpTo(session, Len(session), i) <= CallsBefore(session, Len(session), i)
    /\ ModelIdsUnique => C10_ResultIdsUnique
    /\ pc \in {"while", "invoke", "done"} =>
         \A i \in AllToolIds :
            ResultsUpTo(session, Len(session), i) = CallsBefore(session, Len(session), i)

\* The model used the same id in two replies and got a result for each.
C10_Witness ==
    /\ pc = "while"
    /\ invocations = 2
    /\ ResultsUpTo(session, Len(session), "c1") = 2
    /\ CallsBefore(session, Len(session), "c1") = 2
(***************************************************************************)
(* C8.  Concurrent and sequential dispatch agree: when a batch returns,    *)
(* its results hold each (id, output) pair as often as the results of      *)
(* sequential dispatch of the same calls with the same handlers, so the    *)
(* id -> output mapping is the same; and when the loop has returned, its   *)
(* final answer (response) is the one the sequential loop reaches on the   *)
(* same replies, in a session that differs at most in the order of         *)
(* tool_results inside a batch.                                            *)
(***************************************************************************)
\* How often the pair (id, output) of result r occurs in rs.
PairCount(rs, r) ==
    Cardinality({k \in 1..Len(rs) : rs[k].id = r.id /\ rs[k].output = r.output})

\* The id -> output mapping of a results list, as a set of pairs.
Mapping(rs) == {<<rs[k].id, rs[k].output>> : k \in 1..Len(rs)}

SameResults(rs, ss) ==
    /\ Len(rs) = Len(ss)
    /\ Mapping(rs) = Mapping(ss)
    /\ \A k \in 1..Len(ss) : PairCount(rs, ss[k]) = PairCount(ss, ss[k])

\* The session the loop builds with parallel=False from the same replies.
RECURSIVE FlattenSequential(_)
FlattenSequential(h) ==
    IF h = << >> THEN << >>
    ELSE Head(h).reply
           \o execute_tool_calls_sequential(FilterToolCalls(Head(h).reply),
                                            tool_handlers)
           \o FlattenSequential(Tail(h))

SequentialSession == InitialSession \o FlattenSequential(history)

IsPrefix(s, t) == Len(s) <= Len(t) /\ SubSeq(t, 1, Len(s)) = s

C11_AppendOnly ==
    /\ [][/\ IsPrefix(session, session')
          /\ Len(session') <= Len(session) + 1]_vars
    /\ [](/\ IsPrefix(InitialSession, session)
          /\ IsPrefix(session, send(session, "more"))
          /\ Len(send(session, "more")) = Len(session) + 1)

\* Parsed messages and tool_results of two iterations were appended.
C11_Witness ==
    /\ pc = "done"
    /\ Labels(session) = <<"system", "user", "tool_call", "tool_result",
                           "thinking", "assistant">>

(***************************************************************************)
(* C12.  Tool workers never write the session.  While execute_tool_calls   *)
(* runs (from the first submission until the executor is left) the session *)
(* is what it was when the batch began; a step of a worker changes nothing *)
(* of it; no step changes it while a worker of the batch has not finished; *)
(* and a tool_result is appended only by the control thread standing in    *)
(* the for loop over the returned results, after every worker finished.    *)
(***************************************************************************)
Dispatching == pc \in {"submit", "collect", "shutdown"}

C12_WorkersNeverWrite ==
    /\ [](Dispatching => session = InitialSession \o Flatten(history))
    /\ [][/\ handlerRuns' # handlerRuns => session' = session
          /\ ~AllFinished => session' = session
          /\ (session' # session /\ IsToolResult(session'[Len(session')]))
                => (pc = "results" /\ AllFinished /\ handlerRuns' = handlerRuns)]_vars

\* Two workers of one batch: one has finished, the other is still running,
\* and nothing of the batch is in the session.
C12_Witness ==
    /\ pc = "collect"
    /\ \E j, k \in DOMAIN futures :
         futures[j].state = "finished" /\ futures[k].state = "pending"
    /\ NumToolResults(session) = 0

(***************************************************************************)
(* C13.  Iterations never overlap: whenever the control thread stands at   *)
(* the call of invoke_model, no worker of an earlier iteration is still    *)
(* running (every future has finished and was collected) and every         *)
(* tool_result of the earlier iterations is in the session, one per        *)
(* tool_call.                                                              *)
(***************************************************************************)
Quiescent ==
    /\ AllYielded
    /\ session = InitialSession \o Flatten(history)
    /\ handlerRuns = NumRegisteredCalls(session)
    /\ NumToolResults(session) = NumToolCalls(session)

C13_IterationsNeverOverlap == pc = "invoke" => Quiescent

\* The model is called for the second iteration after a batch of two
\* workers.
C13_Witness ==
    /\ pc = "invoke"
    /\ invocations = 1
    /\ handlerRuns = 2
    /\ NumToolResults(session) = 2

(***************************************************************************)
(* Helpers about the model turns of a finished loop.                       *)
(***************************************************************************)
\* The parsed messages of the last model turn.
LastTurn == history[Len(history)].reply

\* The turns that produced an assistant message.
TurnsWithAssistant == {j \in 1..Len(history) : LastAssistant(history[j].reply) # 0}

\* The last assistant message of turn j.
AnswerOfTurn(j) == history[j].reply[LastAssistant(history[j].reply)]

(***************************************************************************)
(* C14.  As claimed: after a finished loop response returns an assistant   *)
(* message when the last model turn produced one, and None when the last   *)
(* model turn lacks an assistant message.                                  *)
(***************************************************************************)
C14_AbsentWhenLastTurnLacks ==
    (pc = "done" /\ history # << >>) =>
        IF LastAssistant(LastTurn) # 0
        THEN response(session) = AnswerOfTurn(Len(history))
        ELSE response(session) = NoneDict

(***************************************************************************)
(* C14 amended.  After a finished loop response returns the last assistant *)
(* message of the last model turn when that turn produced one; when it     *)
(* did not, response returns the last assistant message of the latest      *)
(* earlier turn that produced one, and None only when no turn of the loop  *)
(* produced an assistant message.                                          *)
(***************************************************************************)
C14_FinalAnswer ==
    pc = "done" =>
        IF TurnsWithAssistant = {}
        THEN response(session) = NoneDict
        ELSE LET j == CHOOSE i \in TurnsWithAssistant :
                        \A h \in TurnsWithAssistant : h <= i
             IN response(session) = AnswerOfTurn(j)

\* The loop stopped on a turn without assistant message, and response
\* returns the assistant message of the turn before.
C14_Witness ==
    /\ pc = "done"
    /\ Len(history) = 2
    /\ TurnsWithAssistant = {1}
    /\ response(session) = AnswerOfTurn(1)

(***************************************************************************)
(* The session API in the hands of a caller.  A second specification: the  *)
(* session is built entry by entry with send and extend_session (as the    *)
(* loop does for parsed messages and tool_results) from an empty session   *)
(* or from init_session, and at any point the caller asks for the          *)
(* response, for the outbound translation, or has a loop iteration build   *)
(* its request.                                                            *)
(***************************************************************************)
\* Longest session built.
MaxLen == 4

\* The entries extend_session is called with: the messages parse_response
\* makes of a thinking block (with and without signature), a text block and
\* a tool_use block, the tool_results of a batch (an output that is a str,
\* one that is not), and a further system entry.
ExtendedMessages ==
    { ParseBlock(b, now)[1] :
        b \in { [type |-> "thinking", thinking |-> "hm", signature |-> "sig"],
                [type |-> "thinking", thinking |-> "hm"],
                [type |-> "text", text |-> "ok"],
                ToolUse("c1", "add") } }
      \cup { [type |-> "tool_result", id |-> "c1", output |-> Str("3")],
             [type |-> "tool_result", id |-> "c2", output |-> PyInt(7)],
             [role |-> "system", content |-> "sys2", ts |-> now] }

\* The variables of a run of agent_loop, untouched by the caller.
loopVars == <<max_iterations, pc, iteration, api_response, messages,
              tool_calls, results, futures, idx, raised, clock, invocations,
              handlerRuns, blocksUsed, history>>

CallerInit ==
    /\ session \in {<< >>, InitialSession}
    /\ max_iterations = NoCap
    /\ pc = "caller"
    /\ iteration = 0
    /\ api_response = << >>
    /\ messages = << >>
    /\ tool_calls = << >>
    /\ results = << >>
    /\ futures = NoFutures
    /\ idx = 1
    /\ raised = NoException
    /\ clock = 1
    /\ invocations = 0
    /\ handlerRuns = 0
    /\ blocksUsed = 0
    /\ history = << >>
    /\ call = NoCall
    /\ forked = NoFork

\* send(session, user_message)
Send ==
    /\ Len(session) < MaxLen
    /\ session' = send(session, "more")
    /\ call' = [op |-> "send"]
    /\ UNCHANGED forked
    /\ UNCHANGED loopVars

\* extend_session(session, message)
Extend ==
    /\ Len(session) < MaxLen
    /\ \E m \in ExtendedMessages : session' = extend_session(session, m)
    /\ call' = [op |-> "extend_session"]
    /\ UNCHANGED forked
    /\ UNCHANGED loopVars

\* to_api_messages(session["messages"])
Translate ==
    /\ call' = [op |-> "to_api_messages", out |-> to_api_messages(session)]
    /\ UNCHANGED <<session, forked>>
    /\ UNCHANGED loopVars

\* A loop iteration builds its request from the session (lines 206-209)
\* and hands it to invoke_model.
BuildRequest ==
    /\ call' = [op |-> "invoke_model", api_session |-> Request(session)]
    /\ UNCHANGED <<session, forked>>
    /\ UNCHANGED loopVars

\* response(session)
Respond ==
    /\ call' = [op |-> "response", out |-> response(session)]
    /\ UNCHANGED <<session, forked>>
    /\ UNCHANGED loopVars

CallerNext ==
    \/ Send
    \/ Extend
    \/ Translate
    \/ BuildRequest
    \/ Respond

CallerSpec == CallerInit /\ [][CallerNext]_vars

CallerTypeOK ==
    /\ Len(session) <= MaxLen
    /\ pc = "caller"
    /\ call.op \in {"none", "send", "extend_session", "to_api_messages",
                    "invoke_model", "response"}

(***************************************************************************)
(* C15.  response(session) returns the assistant-role entry with the       *)
(* highest position in the session, and returns None exactly when the      *)
(* session has no assistant-role entry; the call changes nothing in the    *)
(* session.                                                                *)
(***************************************************************************)
C15_LastAssistantEntry ==
    /\ [](call.op = "response" =>
            IF LastAssistant(session) = 0
            THEN call.out = NoneDict
            ELSE /\ call.out = session[LastAssistant(session)]
                 /\ call.out # NoneDict
                 /\ call.out.role = "assistant"
                 /\ \A k \in (LastAssistant(session) + 1)..Len(session) :
                      Get(session[k], "role") # "assistant")
    /\ [][call'.op = "response" => session' = session]_vars

\* Two assistant entries, the later one followed by entries of other kinds:
\* response returned the later one.
C15_Witness ==
    /\ call.op = "response"
    /\ Len(session) = MaxLen
    /\ LastAssistant(session) = MaxLen - 1
    /\ Get(session[MaxLen - 2], "role") = "assistant"
    /\ call.out = session[MaxLen - 1]

(***************************************************************************)
(* Forking.  A third specification: the caller forks the session once and  *)
(* goes on with both, sending user messages and letting loop iterations    *)
(* append to either.  An append acts on a list object and shows in every   *)
(* session whose messages are that list.                                   *)
(***************************************************************************)
\* What the loop appends to the session it runs on: a parsed assistant
\* message, a tool_result.
LoopAppends ==
    { [role |-> "assistant", content |-> "ok", ts |-> now],
      [type |-> "tool_result", id |-> "c1", output |-> Str("3")] }

\* The list object behind a handle: "session" or "fork".
ListOf(handle) == IF handle = "session" THEN SessionList ELSE forked.list

\* The messages seen through a handle.
MessagesOf(handle) == IF handle = "session" THEN session ELSE forked.messages

\* list.append(message) on one list object.
AppendToList(l, message) ==
    /\ session' = IF l = SessionList THEN extend_session(session, message)
                  ELSE session
    /\ forked' = IF forked.list = l
                 THEN [forked EXCEPT !.messages = extend_session(@, message)]
                 ELSE forked

Handles == IF forked = NoFork THEN {"session"} ELSE {"session", "fork"}

ForkInit ==
    /\ CallerInit
    /\ session = InitialSession

\* fork_session(session)
Fork ==
    /\ forked = NoFork
    /\ forked' = fork_session(session)
    /\ call' = [op |-> "fork_session"]
    /\ UNCHANGED session
    /\ UNCHANGED loopVars

\* send on the session or on its fork.
SendOn(handle) ==
    /\ handle \in Handles
    /\ Len(MessagesOf(handle)) < MaxLen
    /\ AppendToList(ListOf(handle),
                    [role |-> "user", content |-> "more", ts |-> now])
    /\ call' = [op |-> "send", on |-> handle]
    /\ UNCHANGED loopVars

\* A step of agent_loop running on the session or on its fork: one
\* extend_session (line 214 or 223).
LoopStepOn(handle) ==
    /\ handle \in Handles
    /\ Len(MessagesOf(handle)) < MaxLen
    /\ \E m \in LoopAppends : AppendToList(ListOf(handle), m)
    /\ call' = [op |-> "agent_loop", on |-> handle]
    /\ UNCHANGED loopVars

ForkNext ==
    \/ Fork
    \/ \E handle \in {"session", "fork"} : SendOn(handle)
    \/ \E handle \in {"session", "fork"} : LoopStepOn(handle)

ForkSpec == ForkInit /\ [][ForkNext]_vars

(***************************************************************************)
(* C16.  fork_session returns a copy equal to the original, and any later  *)
(* append or loop step on one of the two sessions leaves the other one     *)
(* unchanged: a step on the fork changes nothing of the session, a step on *)
(* the session nothing of the fork, and the one it acts on grows by one    *)
(* entry.                                                                  *)
(***************************************************************************)
C16_ForkIsIndependent ==
    /\ [](call.op = "fork_session" => forked.messages = session)
    /\ [][(forked # NoFork /\ call'.op \in {"send", "agent_loop"}) =>
            IF call'.on = "session"
            THEN /\ forked'.messages = forked.messages
                 /\ IsPrefix(session, session')
                 /\ Len(session') = Len(session) + 1
            ELSE /\ session' = session
                 /\ IsPrefix(forked.messages, forked'.messages)
                 /\ Len(forked'.messages) = Len(forked.messages) + 1]_vars

\* Both sessions were appended to after the fork and now differ.
C16_Witness ==
    /\ forked # NoFork
    /\ Len(session) = Len(forked.messages)
    /\ Len(session) = MaxLen
    /\ session[MaxLen] # forked.messages[MaxLen]
    /\ session[MaxLen - 1] = forked.messages[MaxLen - 1]

(***************************************************************************)
(* Helpers about the turns to_api_messages returns.                        *)
(***************************************************************************)
\* The entries of s that are no system entries, in their order.
RECURSIVE NonSystem(_)
NonSystem(s) ==
    IF s = << >> THEN << >>
    ELSE IF Get(Head(s), "role") = "system" THEN NonSystem(Tail(s))
         ELSE << Head(s) >> \o NonSystem(Tail(s))

\* The side of the conversation an entry belongs to.
Side(m) ==
    IF Get(m, "role") = "user" THEN "user"
    ELSE IF Get(m, "type") = "tool_result" THEN "tool_results"
         ELSE "assistant"

\* Two neighbouring entries belong to one run: same side, and no user entry.
SameRun(m, n) == Side(m) = Side(n) /\ Side(m) # "user"

\* A turn carries a str (a user turn) or a list of blocks.
IsTextTurn(turn) == turn.content.py = "str"
TurnSize(turn) == IF IsTextTurn(turn) THEN 1 ELSE Len(turn.content.v)

\* The number of entries carried by the first j turns.
RECURSIVE EntriesUpTo(_, _)
EntriesUpTo(turns, j) ==
    IF j = 0 THEN 0 ELSE EntriesUpTo(turns, j - 1) + TurnSize(turns[j])

\* The turn that carries the k-th entry, and the place of the entry in it.
TurnOf(turns, k) ==
    CHOOSE j \in 1..Len(turns) :
        EntriesUpTo(turns, j - 1) < k /\ k <= EntriesUpTo(turns, j)
PlaceIn(turns, k) == k - EntriesUpTo(turns, TurnOf(turns, k) - 1)

\* Entry m is carried by this turn at this place, with its content.
Carries(turn, place, m) ==
    CASE Side(m) = "user" ->
           /\ turn.role = "user"
           /\ turn.content = Str(m.content)
      [] Side(m) = "tool_results" ->
           /\ turn.role = "user"
           /\ ~IsTextTurn(turn)
           /\ turn.content.v[place] =
                 [type |-> "tool_result", tool_use_id |-> m.id,
                  content |-> IF m.output.py = "str" THEN m.output.v
                              ELSE json_dumps(m.output)]
      [] OTHER ->
           /\ turn.role = "assistant"
           /\ ~IsTextTurn(turn)
           /\ LET block == turn.content.v[place] IN
                CASE Get(m, "role") = "assistant" ->
                       block = [type |-> "text", text |-> m.content]
                  [] Get(m, "type") = "tool_call" ->
                       block = [type |-> "tool_use", id |-> m.id,
                                name |-> m.name, input |-> m.input]
                  [] OTHER ->
                       /\ block.type = "thinking"
                       /\ block.thinking = m.content
                       /\ ("signature" \in DOMAIN block) <=> ("signature" \in DOMAIN m)
                       /\ "signature" \in DOMAIN m => block.signature = m.signature

\* The turns are the entries cut into their maximal runs.
TurnsOfRuns(turns, entries) ==
    /\ \A j \in 1..Len(turns) : TurnSize(turns[j]) >= 1
    /\ EntriesUpTo(turns, Len(turns)) = Len(entries)
    /\ \A k \in 1..Len(entries) :
         Carries(turns[TurnOf(turns, k)], PlaceIn(turns, k), entries[k])
    /\ \A k \in 1..(Len(entries) - 1) :
         IF SameRun(entries[k], entries[k + 1])
         THEN TurnOf(turns, k + 1) = TurnOf(turns, k)
         ELSE TurnOf(turns, k + 1) = TurnOf(turns, k) + 1

(***************************************************************************)
(* C17.  to_api_messages keeps order and content and cuts turns only where *)
(* the side changes: read without its system entries, the session is cut   *)
(* into its maximal runs of thinking/assistant/tool_call entries, each of  *)
(* which is exactly one assistant turn, its maximal runs of tool_result    *)
(* entries, each exactly one user-role turn of tool_result blocks, and its *)
(* user entries, each a turn of its own; the blocks of all turns read in   *)
(* order are the non-system entries in their order, each with its content  *)
(* (an output that is no str as its JSON text).                            *)
(***************************************************************************)
C17_TurnsAreRuns ==
    call.op = "to_api_messages" => TurnsOfRuns(call.out, NonSystem(session))

\* An assistant turn of two blocks followed by a tool-results turn of two
\* blocks.
C17_Witness ==
    /\ call.op = "to_api_messages"
    /\ Len(call.out) = 2
    /\ call.out[1].role = "assistant"
    /\ TurnSize(call.out[1]) = 2
    /\ call.out[2].role = "user"
    /\ TurnSize(call.out[2]) = 2

(***************************************************************************)
(* C18.  In the request a loop iteration hands to invoke_model no system   *)
(* entry is in the turn sequence (every turn is a user or an assistant     *)
(* turn and the turns carry exactly the non-system entries), and the       *)
(* top-level system field is present exactly when the session has a system *)
(* entry and then holds the text of the first one.                         *)
(***************************************************************************)
SystemPositions(s) == {k \in 1..Len(s) : Get(s[k], "role") = "system"}

FirstSystem(s) ==
    s[CHOOSE k \in SystemPositions(s) : \A j \in SystemPositions(s) : k <= j]

C18_SystemIsTopLevel ==
    call.op = "invoke_model" =>
        LET request == call.api_session IN
        /\ DOMAIN request \subseteq {"messages", "system"}
        /\ \A j \in 1..Len(request.messages) :
             request.messages[j].role \in {"user", "assistant"}
        /\ TurnsOfRuns(request.messages, NonSystem(session))
        /\ ("system" \in DOMAIN request) <=> (SystemPositions(session) # {})
        /\ SystemPositions(session) # {} =>
             request.system = FirstSystem(session).content

\* A session with two system entries of different text: the request holds
\* the first text, and a user turn.
C18_Witness ==
    /\ call.op = "invoke_model"
    /\ Cardinality(SystemPositions(session)) = 2
    /\ "system" \in DOMAIN call.api_session
    /\ call.api_session.system = "sys"
    /\ Len(call.api_session.messages) >= 1

(***************************************************************************)
(* Parsing.  A fourth specification: a provider response of any of the     *)
(* block kinds arrives at some time and parse_response is applied to it.   *)
(***************************************************************************)
\* The blocks a provider response may hold: thinking with and without
\* signature, text, empty text, tool_use (two ids), and a block of a type
\* parse_response has no branch for.
WireBlocks ==
    { [type |-> "thinking", thinking |-> "hm", signature |-> "sig"],
      [type |-> "thinking", thinking |-> "hm"],
      [type |-> "text", text |-> "ok"],
      [type |-> "text", text |-> ""],
      ToolUse("c1", "add"),
      ToolUse("c2", "nope"),
      [type |-> "redacted_thinking", data |-> "xx"] }

WireReplies == UNION {[1..n -> WireBlocks] : n \in 0..MaxBlocks}

ParseInit ==
    /\ session = InitialSession
    /\ max_iterations = NoCap
    /\ pc = "invoke"
    /\ iteration = 1
    /\ api_response \in WireReplies
    /\ messages = << >>
    /\ tool_calls = << >>
    /\ results = << >>
    /\ futures = NoFutures
    /\ idx = 1
    /\ raised = NoException
    /\ clock = 1
    /\ invocations = 1
    /\ handlerRuns = 0
    /\ blocksUsed = 0
    /\ history = << >>
    /\ call = NoCall
    /\ forked = NoFork

\* Time passes, while the model is working on its response and after it.
Tick ==
    /\ pc \in {"invoke", "extend"}
    /\ clock < MaxLen
    /\ clock' = clock + 1
    /\ UNCHANGED <<session, max_iterations, pc, iteration, api_response,
                   messages, tool_calls, results, futures, idx, raised,
                   invocations, handlerRuns, blocksUsed, history, call, forked>>

\* messages = parse_response(api_response)
Parse ==
    /\ pc = "invoke"
    /\ messages' = parse_response(api_response, now)
    /\ call' = [op |-> "parse_response", at |-> now]
    /\ pc' = "extend"
    /\ UNCHANGED <<session, max_iterations, iteration, api_response,
                   tool_calls, results, futures, idx, raised, clock,
                   invocations, handlerRuns, blocksUsed, history, forked>>

\* The blocks of the one assistant turn a model turn is sent as.
ReplayedBlocks(ms) ==
    IF to_api_messages(ms) = << >> THEN << >>
    ELSE to_api_messages(ms)[1].content.v

\* The parsed model turn is translated outbound and the provider returns
\* its blocks as they are: they are parsed again.
RoundTrip ==
    /\ pc = "extend"
    /\ call' = [op |-> "round_trip", turns |-> to_api_messages(messages),
                out |-> parse_response(ReplayedBlocks(messages), now)]
    /\ pc' = "done"
    /\ UNCHANGED <<session, max_iterations, iteration, api_response, messages,
                   tool_calls, results, futures, idx, raised, clock,
                   invocations, handlerRuns, blocksUsed, history, forked>>

ParseNext ==
    \/ Tick
    \/ Parse
    \/ RoundTrip

ParseSpec == ParseInit /\ [][ParseNext]_vars

\* parse_response has returned.
Parsed == call.op = "parse_response"

\* The blocks that give a message, in their order.
RECURSIVE Emitting(_)
Emitting(content) ==
    IF content = << >> THEN << >>
    ELSE IF \/ Head(content).type \in {"thinking", "tool_use"}
            \/ Head(content).type = "text" /\ Head(content).text # ""
         THEN << Head(content) >> \o Emitting(Tail(content))
         ELSE Emitting(Tail(content))

\* Message m is what the claim says block b becomes.
MessageOf(m, b) ==
    CASE b.type = "thinking" ->
           /\ Get(m, "type") = "thinking"
           /\ "role" \notin DOMAIN m
           /\ m.content = b.thinking
           /\ ("signature" \in DOMAIN m) <=> ("signature" \in DOMAIN b)
           /\ "signature" \in DOMAIN b => m.signature = b.signature
      [] b.type = "text" ->
           /\ Get(m, "role") = "assistant"
           /\ "type" \notin DOMAIN m
           /\ m.content = b.text
      [] b.type = "tool_use" ->
           /\ Get(m, "type") = "tool_call"
           /\ "role" \notin DOMAIN m
           /\ m.id = b.id
           /\ m.name = b.name
           /\ m.input = b.input

(***************************************************************************)
(* C19.  parse_response maps each block of the response to no message or   *)
(* one, in block order: a thinking block to a thinking message (signature  *)
(* copied when present, absent when absent), a text block with non-empty   *)
(* text to an assistant message, a tool_use block to a tool_call with the  *)
(* same id, name and input; a text block with empty text gives no message. *)
(***************************************************************************)
C19_BlocksToMessages ==
    Parsed =>
        /\ Len(messages) = Len(Emitting(api_response))
        /\ \A k \in 1..Len(messages) :
             MessageOf(messages[k], Emitting(api_response)[k])

\* A response with an empty text between a signed thinking block and a
\* tool_use block: two messages.
C19_Witness ==
    /\ Parsed
    /\ Len(api_response) = 3
    /\ api_response[2] = [type |-> "text", text |-> ""]
    /\ Len(messages) = 2
    /\ Get(messages[1], "type") = "thinking"
    /\ "signature" \in DOMAIN messages[1]
    /\ Get(messages[2], "type") = "tool_call"

(***************************************************************************)
(* C20.  As claimed: every message parse_response returns (thinking,       *)
(* assistant and tool_call alike) carries the timestamp taken at parse     *)
(* time.                                                                   *)
(***************************************************************************)
C20_EveryMessageStamped ==
    Parsed =>
        \A k \in 1..Len(messages) :
            "ts" \in DOMAIN messages[k] /\ messages[k].ts = call.at

(***************************************************************************)
(* C20 amended.  Every thinking and every assistant message parse_response *)
(* returns carries the one timestamp taken at parse time; a tool_call      *)
(* message carries no timestamp.                                           *)
(***************************************************************************)
C20_StampedExceptToolCalls ==
    Parsed =>
        \A k \in 1..Len(messages) :
            IF Get(messages[k], "type") = "tool_call"
            THEN "ts" \notin DOMAIN messages[k]
            ELSE "ts" \in DOMAIN messages[k] /\ messages[k].ts = call.at

\* A response parsed some time after the request: a stamped thinking
\* message, a stamped assistant message and a tool_call without ts.
C20_Witness ==
    /\ Parsed
    /\ call.at > 1
    /\ Len(messages) = 3
    /\ Get(messages[1], "type") = "thinking"
    /\ Get(messages[2], "role") = "assistant"
    /\ Get(messages[3], "type") = "tool_call"
    /\ "ts" \notin DOMAIN messages[3]

(***************************************************************************)
(* C21.  Round trip on the assistant side: a model turn (the messages      *)
(* parse_response made of one response) translated outbound is at most one *)
(* turn, an assistant turn, and its blocks parsed again give as many       *)
(* messages, in the same order, each of the same kind with the same text,  *)
(* the same thinking content, the same signature (present or absent) and,  *)
(* for a tool_call, the same id, name and input; only ts is taken anew.    *)
(***************************************************************************)
\* A message without its timestamp.
Unstamped(m) == [k \in DOMAIN m \ {"ts"} |-> m[k]]

C21_RoundTrip ==
    call.op = "round_trip" =>
        /\ Len(call.turns) = IF messages = << >> THEN 0 ELSE 1
        /\ \A j \in 1..Len(call.turns) : call.turns[j].role = "assistant"
        /\ Len(call.out) = Len(messages)
        /\ \A k \in 1..Len(messages) :
             Unstamped(call.out[k]) = Unstamped(messages[k])

\* A turn of a signed thinking, an unsigned thinking and a text went out
\* and came back, at a later time.
C21_Witness ==
    /\ call.op = "round_trip"
    /\ Len(messages) = 3
    /\ \E j, k \in 1..3 :
         /\ Get(messages[j], "type") = "thinking"
         /\ "signature" \in DOMAIN messages[j]
         /\ Get(messages[k], "type") = "thinking"
         /\ "signature" \notin DOMAIN messages[k]
    /\ \E j \in 1..3 : Get(call.out[j], "role") = "assistant"
    /\ call.out # messages

(***************************************************************************)
(* Logging.  A fifth specification: log is applied to a message of any     *)
(* kind, with contents of every length up to MaxContent, under an agent    *)
(* name or none.                                                           *)
(***************************************************************************)
\* Longest content logged (filler characters).
MaxContent == 100

\* n filler characters.
RECURSIVE Filler(_)
Filler(n) ==
    IF n = 0 THEN ""
    ELSE IF n = 1 THEN "x"
    ELSE Filler(n \div 2) \o Filler(n - (n \div 2))

\* The contents logged: every length up to MaxContent, and contents with
\* new lines and white space at the ends.
LogContents ==
    {Filler(n) : n \in 0..MaxContent}
      \cup {" a\nb" \o Filler(n) \o " \n" : n \in {0, MaxContent}}

\* The messages logged: the kinds the loop logs (parsed messages, results)
\* and the kinds a caller holds.
LogMessages ==
    UNION { { [role |-> "assistant", content |-> c, ts |-> 1],
              [role |-> "user", content |-> c, ts |-> 1],
              [type |-> "thinking", content |-> c, ts |-> 1],
              [type |-> "tool_result", id |-> "c1", output |-> Str(c)] }
            : c \in LogContents }
      \cup { [type |-> "tool_call", name |-> "add", id |-> "c1", input |-> ToolInput],
             [type |-> "tool_result", id |-> "c2", output |-> PyInt(7)] }

AgentNames == {None, "", "bot", "compressor-agent"}

LogInit ==
    /\ session = InitialSession
    /\ max_iterations = NoCap
    /\ pc = "log"
    /\ iteration = 1
    /\ api_response = << >>
    /\ messages \in {<<m>> : m \in LogMessages}
    /\ tool_calls = << >>
    /\ results = << >>
    /\ futures = NoFutures
    /\ idx = 1
    /\ raised = NoException
    /\ clock = 2
    /\ invocations = 1
    /\ handlerRuns = 0
    /\ blocksUsed = 0
    /\ history = << >>
    /\ call = NoCall
    /\ forked = NoFork

\* log(msg, name)
Log ==
    /\ pc = "log"
    /\ \E name \in AgentNames :
         call' = [op |-> "log", name |-> name,
                  line |-> log(messages[1], name)]
    /\ pc' = "logged"
    /\ UNCHANGED <<session, max_iterations, iteration, api_response, messages,
                   tool_calls, results, futures, idx, raised, clock,
                   invocations, handlerRuns, blocksUsed, history, forked>>

LogNext == Log

LogSpec == LogInit /\ [][LogNext]_vars

(***************************************************************************)
(* C22.  Every line log prints has at most 120 characters, for every       *)
(* message and agent name; when the line before the cut is longer than 120 *)
(* the printed line has exactly 120 characters, the first 117 of the line  *)
(* followed by "..."; a line of 120 characters or fewer is printed as it   *)
(* is.                                                                     *)
(***************************************************************************)
C22_LineAtMost120 ==
    call.op = "log" =>
        LET full == RenderedLine(messages[1], call.name) IN
        /\ Len(call.line) <= 120
        /\ IF Len(full) > 120
           THEN /\ Len(call.line) = 120
                /\ SubSeq(call.line, 118, 120) = "..."
                /\ SubSeq(call.line, 1, 117) = SubSeq(full, 1, 117)
           ELSE call.line = full

\* A line of 121 characters before the cut was printed with 120.
C22_Witness ==
    /\ call.op = "log"
    /\ Len(RenderedLine(messages[1], call.name)) = 121
    /\ Len(call.line) = 120

ThinkingOnly(ms) ==
    /\ ms # << >>
    /\ \A k \in 1..Len(ms) : Get(ms[k], "type") = "thinking"

C24_ThinkingOnlyContinues ==
    (pc = "done" /\ invocations >= 1 /\ ThinkingOnly(messages)) =>
        (Capped /\ iteration = Cap)

(***************************************************************************)
(* C24 amended: a reply of thinking blocks only has no tool_call, so it    *)
(* ends the loop like any other reply without tool_call: its thinking      *)
(* entries are appended, nothing is dispatched, the model is not invoked   *)
(* again and agent_loop returns, with or without budget left.              *)
(***************************************************************************)
C24_ThinkingOnlyStops ==
    (invocations >= 1 /\ ThinkingOnly(messages)) =>
        /\ pc \in {"extend", "done"}
        /\ raised = NoException
        /\ invocations = iteration
        /\ Len(history) = invocations
        /\ pc = "done" =>
             /\ Len(session) >= Len(messages)
             /\ SubSeq(session, Len(session) - Len(messages) + 1, Len(session))
                  = messages

\* Without a cap the loop has returned after one reply of thinking only.
C24_Witness ==
    /\ pc = "done"
    /\ max_iterations = NoCap
    /\ invocations = 1
    /\ ThinkingOnly(messages)
    /\ Len(session) = Len(InitialSession) + Len(messages)

(***************************************************************************)
(* The loop under fair scheduling.  The control thread of agent_loop keeps *)
(* running: a call it makes (invoke_model, the executor) comes back, and   *)
(* the thread pool runs every task that was submitted.                     *)
(***************************************************************************)
ControlThread ==
    \/ WhileTest
    \/ InvokeModelReturns
    \/ InvokeModelRaises
    \/ ExtendMessage
    \/ SelectToolCalls
    \/ SubmitToolCall
    \/ AsCompleted
    \/ \E k \in 1..MaxBlocks : CollectFuture(k)
    \/ ExecutorExit
    \/ ExecutorExitRaising
    \/ ExtendResult

FairSpec ==
    /\ Init
    /\ [][Next]_vars
    /\ WF_vars(ControlThread)
    /\ \A k \in 1..MaxBlocks : WF_vars(WorkerRun(k))

\* The model has returned a reply without tool_call.
ToolFreeReply ==
    /\ Len(history) >= 1
    /\ FilterToolCalls(history[Len(history)].reply) = << >>

\* agent_loop has returned: STOPPED.
Stopped == pc = "done"

(***************************************************************************)
(* C25.  Under fair scheduling, a loop with a cap eventually returns       *)
(* unless a call fails (an exception leaves agent_loop); once the model    *)
(* has returned a reply without tool_call the loop eventually returns; and *)
(* a loop without a cap returns only after such a reply.                   *)
(***************************************************************************)
C25_Termination ==
    /\ <>(Stopped \/ raised # NoException \/ ~Capped)
    /\ ToolFreeReply ~> Stopped
    /\ [](~Capped /\ Stopped => ToolFreeReply)

\* Without a cap the loop has returned after a reply with a tool call and a
\* reply without one.
C25_Witness ==
    /\ Stopped
    /\ max_iterations = NoCap
    /\ raised = NoException
    /\ Len(history) = 2
    /\ FilterToolCalls(history[1].reply) # << >>
    /\ ToolFreeReply

(***************************************************************************)
(* C26.  As claimed: whatever the calls of a batch are, unknown names and  *)
(* raising handlers included, execute_tool_calls returns, with one result  *)
(* per call.                                                               *)
(***************************************************************************)
\* The result a call gets by itself: from its name and its handler alone.
OwnResult(tc) ==
    [type |-> "tool_result", id |-> tc.id,
     output |-> IF tc.name \notin DOMAIN tool_handlers
                THEN Str("Error: unknown tool '" \o tc.name \o "'")
                ELSE IF tool_handlers[tc.name].kind = "return"
                     THEN tool_handlers[tc.name].value
                     ELSE Str("Error: " \o tool_handlers[tc.name].msg)]

OwnResults(tcs) == [k \in 1..Len(tcs) |-> OwnResult(tcs[k])]

\* The exception of a handler is leaving execute_tool_calls.
BatchEscapes == pc = "shutdown"

C26_AnyMixIsolated ==
    /\ ~BatchEscapes
    /\ BatchReturned => SameResults(results, OwnResults(tool_calls))

(***************************************************************************)
(* C26 amended: for every batch of n tool calls whose handlers return or   *)
(* raise an Exception, with any mix of unknown names, execute_tool_calls   *)
(* returns exactly n tool_results, one per call with that call's id and    *)
(* the output the call gets by itself, whatever the other calls do; while  *)
(* the results are collected none is missing its call or altered.  Only a  *)
(* handler raising a BaseException that is no Exception ends the batch:    *)
(* its exception leaves execute_tool_calls and no results are returned.    *)
(***************************************************************************)
C26_FaultIsolation ==
    /\ BatchReturned => SameResults(results, OwnResults(tool_calls))
    /\ pc \in {"submit", "collect", "shutdown"} =>
         \A k \in 1..Len(results) :
            PairCount(results, results[k])
               <= PairCount(OwnResults(tool_calls), results[k])
    /\ BatchEscapes =>
         /\ raised.kind = "BaseException"
         /\ \E k \in 1..Len(tool_calls) :
              /\ tool_calls[k].name = raised.from
              /\ tool_handlers[tool_calls[k].name].kind = "BaseException"

\* A batch of an unknown name, a raising handler and a returning one has
\* returned its three results.
C26_Witness ==
    /\ BatchReturned
    /\ Len(tool_calls) = 3
    /\ {tool_calls[k].name : k \in 1..3} = {"nope", "boom", "add"}
    /\ Len(results) = 3
    /\ \E k \in 1..3 : results[k].output = Str("Error: bad input")
    /\ \E k \in 1..3 : results[k].output = Str("3")

(***************************************************************************)
(* C27.  When the model is about to be invoked again, the request built    *)
(* from the session (api_session) ends with a user turn that holds, in     *)
(* order, one tool_result block per result of the iteration before, with   *)
(* the result's id and its output text: results of handlers that returned, *)
(* of unknown tools and of handlers that raised alike.                     *)
(***************************************************************************)
\* The results execute_tool_calls returned in the iteration before.
PreviousResults == history[Len(history)].results

C27_ResultsReachTheModel ==
    (pc = "invoke" /\ Len(history) >= 1) =>
        LET turns == Request(session).messages
            last == turns[Len(turns)]
        IN /\ PreviousResults # << >>
           /\ last.role = "user"
           /\ last.content.py = "list"
           /\ Len(last.content.v) = Len(PreviousResults)
           /\ \A k \in 1..Len(PreviousResults) :
                last.content.v[k] =
                    [type |-> "tool_result",
                     tool_use_id |-> PreviousResults[k].id,
                     content |-> PreviousResults[k].output.v]

\* The second request is due after a batch with a returned value, an unknown
\* tool and a handler failure.
C27_Witness ==
    /\ pc = "invoke"
    /\ iteration = 2
    /\ Len(history) = 1
    /\ {PreviousResults[k].output : k \in 1..Len(PreviousResults)}
         = {Str("3"), Str("Error: unknown tool 'nope'"), Str("Error: bad input")}
    /\ Len(Request(session).messages) = 3

(***************************************************************************)
(* C28.  When agent_loop returns, every tool_call of the session is        *)
(* followed by a tool_result with its id, and there are as many results    *)
(* as calls.  When it returns with the budget used up after a reply with   *)
(* tool calls, that reply's calls were dispatched and the session ends     *)
(* with their results.                                                     *)
(***************************************************************************)
Answered(s, p) ==
    \E q \in (p + 1)..Len(s) : IsToolResult(s[q]) /\ s[q].id = s[p].id

C28_NoDanglingToolCall ==
    pc = "done" =>
        /\ \A p \in Positions(session, IsToolCall) : Answered(session, p)
        /\ NumToolResults(session) = NumToolCalls(session)
        /\ (invocations >= 1 /\ FilterToolCalls(messages) # << >>) =>
             /\ Capped /\ iteration = Cap
             /\ Len(PreviousResults) = Len(FilterToolCalls(messages))
             /\ SubSeq(session, Len(session) - Len(PreviousResults) + 1,
                       Len(session)) = PreviousResults

\* The budget of two iterations is used up; the second reply had tool calls
\* and the session ends with their results.
C28_Witness ==
    /\ pc = "done"
    /\ Capped /\ Cap = 2 /\ iteration = 2
    /\ invocations = 2
    /\ FilterToolCalls(messages) # << >>
    /\ IsToolResult(session[Len(session)])
    /\ \A p \in Positions(session, IsToolCall) : Answered(session, p)

(***************************************************************************)
(* C29.  When invoke_model fails in iteration k, the session is what it    *)
(* was when iteration k began: the initial session followed by the replies *)
(* and results of the iterations 1..k-1, all of them kept, and nothing of  *)
(* iteration k.                                                            *)
(***************************************************************************)
C29_SessionKeptOnModelFailure ==
    ModelFailed =>
        /\ Len(history) = iteration - 1
        /\ session = InitialSession \o Flatten(history)
        /\ \A j \in 1..Len(history) :
              Len(history[j].results) = Len(FilterToolCalls(history[j].reply))

\* The model failed in iteration 2; the reply and the two results of
\* iteration 1 are still in the session.
C29_Witness ==
    /\ ModelFailed
    /\ iteration = 2
    /\ Len(history[1].results) = 2
    /\ Len(session) = Len(InitialSession) + Len(history[1].reply) + 2
    /\ session = InitialSession \o history[1].reply \o history[1].results

(***************************************************************************)
(* C30.  With max_iterations = 0 the while test fails at once: the model   *)
(* is never invoked, no handler runs, nothing is parsed or dispatched, no  *)
(* exception is raised, and agent_loop returns the session as it got it.   *)
(***************************************************************************)
C30_ZeroBudget ==
    max_iterations = <<0>> =>
        /\ pc \in {"while", "done"}
        /\ iteration = 0
        /\ invocations = 0
        /\ handlerRuns = 0
        /\ history = << >>
        /\ futures = NoFutures
        /\ raised = NoException
        /\ session = InitialSession

\* agent_loop has returned under max_iterations = 0.
C30_Witness ==
    /\ max_iterations = <<0>>
    /\ pc = "done"
    /\ invocations = 0
    /\ session = InitialSession

(***************************************************************************)
(* C31.  In every request the loop passes to invoke_model (api_session     *)
(* built from the session when the invocation is due), no two adjacent     *)
(* turns are both assistant turns, and every tool-results turn comes       *)
(* directly after an assistant turn that holds a tool_use block for each   *)
(* tool_use_id of the tool-results turn.                                   *)
(***************************************************************************)
\* A user turn made of tool_result blocks.
IsToolResultsTurn(turn) == turn.role = "user" /\ turn.content.py = "list"

\* The ids of the tool_use blocks of an assistant turn.
ToolUseIds(turn) ==
    {turn.content.v[k].id :
        k \in {q \in 1..Len(turn.content.v) : turn.content.v[q].type = "tool_use"}}

WellFormed(turns) ==
    /\ \A j \in 1..(Len(turns) - 1) :
          ~(turns[j].role = "assistant" /\ turns[j + 1].role = "assistant")
    /\ \A j \in 1..Len(turns) :
          IsToolResultsTurn(turns[j]) =>
              /\ j > 1
              /\ turns[j - 1].role = "assistant"
              /\ \A k \in 1..Len(turns[j].content.v) :
                    turns[j].content.v[k].tool_use_id \in ToolUseIds(turns[j - 1])

\* The turns of the session agent_loop returns are the first turns of the
\* request a later call of the loop on that session passes; they are
\* well-formed as well.
C31_RequestsWellFormed ==
    /\ pc = "invoke" => WellFormed(Request(session).messages)
    /\ pc = "done" => WellFormed(to_api_messages(session))

\* The second request is due: the prompt, an assistant turn with two
\* tool_use blocks of different ids, and the turn of their two results.
C31_Witness ==
    /\ pc = "invoke"
    /\ iteration = 2
    /\ LET turns == Request(session).messages IN
         /\ Len(turns) = 3
         /\ turns[2].role = "assistant"
         /\ ToolUseIds(turns[2]) = {"c1", "c2"}
         /\ IsToolResultsTurn(turns[3])
         /\ Len(turns[3].content.v) = 2

(***************************************************************************)
(* Dispatch on its own: execute_tool_calls(tool_calls, tool_handlers) is   *)
(* called with a batch of up to MaxBlocks tool calls, and the time at      *)
(* which each future completes is followed.                                *)
(***************************************************************************)
\* The tool_call messages the model can ask for.
ToolCallMessages ==
    {[type |-> "tool_call", name |-> b.name, id |-> b.id, input |-> b.input] :
        b \in ToolUseBlocks}

Batches == UNION {[1..n -> ToolCallMessages] : n \in 0..MaxBlocks}

DispatchInit ==
    /\ session = InitialSession
    /\ max_iterations = <<1>>
    /\ pc = "submit"
    /\ iteration = 1
    /\ api_response = << >>
    /\ tool_calls \in Batches
    /\ messages = tool_calls
    /\ results = << >>
    /\ futures = NoFutures
    /\ idx = 1
    /\ raised = NoException
    /\ clock = 2
    /\ invocations = 1
    /\ handlerRuns = 0
    /\ blocksUsed = Len(tool_calls)
    /\ history = << [reply |-> tool_calls, results |-> << >>] >>
    /\ call = NoCall
    /\ forked = NoFork

DispatchNext ==
    \/ SubmitToolCall
    \/ AsCompleted
    \/ \E k \in 1..MaxBlocks : WorkerRunInOrder(k)
    \/ \E k \in 1..MaxBlocks : CollectFuture(k)
    \/ ExecutorExit
    \/ ExecutorExitRaising

DispatchSpec == DispatchInit /\ [][DispatchNext]_vars

(***************************************************************************)
(* C32.  As claimed: the results of the unknown-tool calls come first, in  *)
(* input order, and the results of the handler calls follow in the order   *)
(* in which the handlers completed.                                        *)
(***************************************************************************)
IsUnknownCall(tc) == tc.name \notin DOMAIN tool_handlers
IsHandlerCall(tc) == tc.name \in DOMAIN tool_handlers

UnknownCalls(tcs) == SelectSeq(tcs, IsUnknownCall)
HandlerCalls(tcs) == SelectSeq(tcs, IsHandlerCall)

\* The results list begins with the results of the unknown-tool calls, in
\* input order.
UnknownFirst ==
    /\ Len(results) >= Len(UnknownCalls(tool_calls))
    /\ SubSeq(results, 1, Len(UnknownCalls(tool_calls)))
         = OwnResults(UnknownCalls(tool_calls))

\* The results after those of the unknown-tool calls.
HandlerResults ==
    SubSeq(results, Len(UnknownCalls(tool_calls)) + 1, Len(results))

\* as_completed has yielded every future: the results list is complete.
BatchCollected == pc = "collect" /\ AllYielded

\* The submitted calls in the order in which their futures completed.
ByCompletion ==
    [n \in 1..Cardinality(DOMAIN futures) |->
        tool_calls[CHOOSE k \in DOMAIN futures : futures[k].seq = n]]

C32_HandlersInCompletionOrder ==
    BatchCollected =>
        /\ UnknownFirst
        /\ HandlerResults = OwnResults(ByCompletion)

(***************************************************************************)
(* C32 amended: the results of all unknown-tool calls come first, in input *)
(* order, before the result of any call that ran a handler.  The results   *)
(* of the handler calls follow, one per call, in the order as_completed    *)
(* yields their futures: the futures already finished when as_completed is *)
(* called come first in no defined order, the others in the order of their *)
(* completion.  That order can be any permutation of the input order and   *)
(* need not be the order of completion.                                    *)
(***************************************************************************)
C32_ResultOrder ==
    /\ pc \in {"collect", "results"} => UnknownFirst
    /\ BatchCollected =>
         SameResults(HandlerResults, OwnResults(HandlerCalls(tool_calls)))
    /\ pc = "collect" =>
         \A k \in DOMAIN futures :
            (futures[k].state = "finished" /\ futures[k].yielded
               /\ ~futures[k].early) =>
                \A j \in DOMAIN futures :
                   (futures[j].state = "finished"
                      /\ (futures[j].early \/ futures[j].seq < futures[k].seq))
                        => futures[j].yielded

\* A returning handler, an unknown tool and a raising handler were called
\* in this order; the handlers completed in input order; the results are
\* those of the unknown tool, the raising handler, the returning handler.
C32_Witness ==
    /\ BatchCollected
    /\ Len(tool_calls) = 3
    /\ tool_calls[1].name = "add"
    /\ tool_calls[2].name = "nope"
    /\ tool_calls[3].name = "boom"
    /\ futures[1].seq = 1
    /\ futures[3].seq = 2
    /\ results = << OwnResult(tool_calls[2]), OwnResult(tool_calls[3]),
                    OwnResult(tool_calls[1]) >>

====
